---------------------------- MODULE Spec2Model ----------------------------
(***************************************************************************)
(* Matchmaking and rating subsystem of the Pokemon Showdown bot-vs-bot     *)
(* runner: BotStats / BotMatchmaker (src/bot_matchmaker.py), BotManager    *)
(* (src/bot_manager.py, src/src/bot_vs_bot/bot_manager.py), the continuous *)
(* runner (src/src/bot_vs_bot/run_bot_vs_bot.py), LeaderboardManager and   *)
(* its update API (src/src/bot_vs_bot/leaderboard_server.py) and the web   *)
(* battle server (src/src/bot_vs_bot/web_battle_server.py).                *)
(*                                                                         *)
(* Ratings are Python floats in the source.  Here a rating is an integer   *)
(* number of tenths of a rating point (RatingUnit per point) and the       *)
(* expected score is a fixed-point number with EloScale units per 1.0;     *)
(* 10 ** (d / 400) is evaluated by binary decomposition of d over the      *)
(* table Pow10Frac.  For every rating difference in -1200.0 .. 1200.0 and  *)
(* every score the rating change computed here is within one tenth of a    *)
(* point of the float change of update_elo.                                *)
(***************************************************************************)
EXTENDS Integers, Sequences, FiniteSets, TLC

VARIABLES
    bot_stats,        \* BotMatchmaker.bot_stats: username -> BotStats
    last_update,      \* <<>> or the last update_battle_result: <<[result, before, after]>>
    active_bots,      \* BotManager.active_bots (the usernames)
    battle_results,   \* BotManager.battle_results: list of BattleResult
    next_battle,      \* number of battle ids handed out (uuid4 prefix, taken as fresh)
    counters,         \* the battle counters of the players, kept by the battle
                      \* collaborator: username -> [n_won_battles, n_lost_battles,
                      \* n_tied_battles]
    initial,          \* username -> <<>> or <<counters>>: the attributes _initial_wins,
                      \* _initial_losses and _initial_ties of the player
    unknown_battles,  \* the ids of the battles at whose end no counter of the two
                      \* players had changed
    decision,         \* <<>> or the call of LLMPlayer.choose_move in progress or last
                      \* returned: <<[available_moves, available_switches, attempt,
                      \* queries, answers, returned]>>, attempt the loop variable,
                      \* queries the number of calls of the LLM client, answers the
                      \* parsed actions of the attempts so far (<<>> for one that
                      \* raised), returned <<>> or <<[value, fallback]>>
    strategy,         \* BotMatchmaker.strategy
    match_queue,      \* BotMatchmaker.match_queue: list of MatchRequest
    pairing_queue,    \* BotMatchmaker.pairing_queue: heapq list of MatchPairing
    match_history,    \* BotMatchmaker.match_history: list of <<bot1, bot2>>
    next_request,     \* number of MatchRequest objects created
    last_add,         \* <<>> or the last call of add_match_request by a submitter:
                      \* <<[rid, bot, returned]>>, the request's number, its bot and the
                      \* value returned
    cycle,            \* <<>> or the last _process_match_queue run:
                      \* <<[time, stats, active, queue before, pairings made, queue after]>>
    now,              \* time.time(), in units of 60 seconds
    mm_pc,            \* BotMatchmaker.run_continuous_matchmaking: "off", "sleep" (awaiting
                      \* asyncio.sleep), "battle" (awaiting start_bot_battle), "cancelled"
    battles_started,  \* its local battles_started
    in_battle,        \* <<>> or the battle start_bot_battle is running: <<[pairing, battle_id]>>
    pending_tasks,    \* number of _process_match_queue tasks created and not yet run
    last_start,       \* <<>> or the last return of start_next_battle after a heappop:
                      \* <<[pairing, returned, attempt]>>, returned = <<>> for None and
                      \* <<battle_id>> otherwise, attempt the number of the start
    run_pc,           \* run_bot_vs_bot.run_continuous_matchmaking: "off", "sleep" (awaiting
                      \* asyncio.sleep(5)), "send" (awaiting _send_update_to_web_server),
                      \* "stopping" (awaiting the matchmaking task), "done"
    running,          \* its global flag running
    poll_idx,         \* index of the battle result the monitoring for-loop stands at
    processed_battles,\* its set processed_battles
    applied,          \* the battle ids it passed to update_battle_result, in order
    stopped_at,       \* <<>> or <<n>>: running was cleared when n battles had been started
    lb_history,       \* LeaderboardManager.battle_history
    lb_stats,         \* LeaderboardManager.bot_stats
    last_post,        \* <<>> or the last POST /api/update: <<[n, batch, new_battles]>>, n the
                      \* number of the request
    last_upsert,      \* <<>> or the last write of LeaderboardManager.bot_stats:
                      \* <<[stored, incoming]>>, the records held before it and the
                      \* records it was given
    lb_order,         \* the keys of LeaderboardManager.bot_stats in insertion order
    data_file,        \* <<>> (no file) or the content of LeaderboardManager.data_file:
                      \* <<[bot_stats, battle_history, closed]>>, the JSON text written
                      \* so far, closed when the text is complete
    save_pc,          \* save_data as another process sees it: "idle", "dump" (the file
                      \* is open for writing) or "flushed" (a part has reached the file)
    web_threads,      \* WebBattleServer: the battle threads started by /api/start-battle,
                      \* each [pc, bot1, bot2, battle_id] with pc "start", "battling"
                      \* or "done"
    battle_status,    \* WebBattleServer.battle_status
    current_battle,   \* WebBattleServer.current_battle: <<>> or <<[bot1, bot2]>>
    tournament        \* <<>> or BotManager.run_tournament: <<[bots, i, j,
                      \* tournament_results, attempts, pc]>>, bots the usernames in
                      \* configuration order, (i, j) the position of the nested loops,
                      \* attempts the pairs passed to start_bot_battle so far, pc
                      \* "battle" (awaiting start_bot_battle) or "returned"

ratingVars == <<bot_stats, last_update>>
managerVars == <<active_bots, battle_results, next_battle>>
queueVars == <<match_queue, pairing_queue, match_history, next_request, last_add, cycle>>
loopVars == <<mm_pc, battles_started, in_battle, pending_tasks, last_start>>
runnerVars == <<run_pc, running, poll_idx, processed_battles, applied, stopped_at>>
lbVars == <<lb_history, lb_stats, last_post, last_upsert, lb_order, data_file, save_pc>>
webVars == <<web_threads, battle_status, current_battle>>
playerVars == <<counters, initial, unknown_battles, decision>>

vars == <<bot_stats, last_update, active_bots, battle_results, next_battle, playerVars, strategy,
          match_queue, pairing_queue, match_history, next_request, last_add, cycle, now,
          loopVars, runnerVars, lbVars, webVars, tournament>>

Bots == {"b1", "b2", "b3"}
Formats == {"f1", "f2"}
None == "None"

----------------------------------------------------------------------------
(* Bounds *)
MaxBattles == 3           \* battles run in one behaviour
MaxRequests == 3          \* match requests submitted in one behaviour
MaxTime == 1              \* clock ticks in one behaviour
MaxRunRequests == 4       \* match requests created by the continuous runner
MaxThreads == 3           \* POST /api/start-battle requests in one behaviour
MaxPosts == 2             \* POST /api/update requests in one behaviour
MaxLimit == 4             \* largest limit asked of get_leaderboard, besides the default
MaxClock == 11            \* clock ticks while the matchmaking loop is watched
MaxCalls == 2             \* calls of start_bot_battle in progress at the same time

----------------------------------------------------------------------------
(* Rating Model: BotStats *)

K_FACTOR == 32
DEFAULT_ELO == 1200
EloScale == 10000
RatingUnit == 10

\* the float elo_rating of so many points
Rating(points) == points * RatingUnit

\* round(EloScale * 10 ** (2^k / (400 * RatingUnit))) for k = 0 .. 11
Pow10Frac == <<10006, 10012, 10023, 10046, 10093, 10186, 10375, 10765, 11588,
               13428, 18030, 32509>>

\* a / b rounded to the nearest integer, halves away from zero (b > 0)
RoundDiv(a, b) ==
    IF a >= 0 THEN (2 * a + b) \div (2 * b)
    ELSE -((2 * (-a) + b) \div (2 * b))

RECURSIVE Pow10Bits(_, _, _)
Pow10Bits(r, k, acc) ==
    IF k > Len(Pow10Frac) THEN acc
    ELSE Pow10Bits(r \div 2, k + 1,
                   IF r % 2 = 1 THEN RoundDiv(acc * Pow10Frac[k], EloScale) ELSE acc)

RECURSIVE IntPow10(_)
IntPow10(q) == IF q = 0 THEN 1 ELSE 10 * IntPow10(q - 1)

\* EloScale * 10 ** (d / 400) for a rating difference d >= 0
Pow10Over400(d) ==
    IntPow10(d \div Rating(400)) * Pow10Bits(d % Rating(400), 1, EloScale)

\* EloScale * (1 / (1 + 10 ** (d / 400))), d = opponent_elo - self.elo_rating
RECURSIVE ExpectedScore(_)
ExpectedScore(d) ==
    IF d >= 0 THEN RoundDiv(EloScale * EloScale, EloScale + Pow10Over400(d))
    ELSE EloScale - ExpectedScore(-d)

\* BotStats.update_elo; result2 is twice the result: 2 = win, 1 = draw, 0 = loss
update_elo(elo_rating, opponent_elo, result2) ==
    elo_rating + RoundDiv(Rating(K_FACTOR) * ((result2 * EloScale) \div 2
                                              - ExpectedScore(opponent_elo - elo_rating)),
                          EloScale)

\* BotStats(username, elo_rating = initial_elo); win_rate is the pair <<numerator, denominator>>
NewBotStats(initial_elo) ==
    [elo_rating |-> initial_elo, wins |-> 0, losses |-> 0, draws |-> 0,
     total_battles |-> 0, win_rate |-> <<0, 1>>]

\* update_stats with the total left alone on a draw
update_stats_DrawNotCounted(s, is_winner, is_draw) ==
    LET t == IF is_draw THEN s.total_battles ELSE s.total_battles + 1
        w == IF ~is_draw /\ is_winner THEN s.wins + 1 ELSE s.wins
    IN  [s EXCEPT !.total_battles = t,
                  !.draws = IF is_draw THEN @ + 1 ELSE @,
                  !.wins = w,
                  !.losses = IF ~is_draw /\ ~is_winner THEN @ + 1 ELSE @,
                  !.win_rate = IF t > 0 THEN <<w, t>> ELSE @]

\* BotStats.update_stats
update_stats(s, is_winner, is_draw) ==
    LET t == s.total_battles + 1
        w == IF ~is_draw /\ is_winner THEN s.wins + 1 ELSE s.wins
    IN  [s EXCEPT !.total_battles = t,
                  !.draws = IF is_draw THEN @ + 1 ELSE @,
                  !.wins = w,
                  !.losses = IF ~is_draw /\ ~is_winner THEN @ + 1 ELSE @,
                  !.win_rate = IF t > 0 THEN <<w, t>> ELSE @]

\* BattleResult (battle_id, bot1_username, bot2_username, winner, battle_format,
\* timestamp); duration, turns and battle_log are not modelled
BattleResult(id, b1, b2, w, f, ts) ==
    [battle_id |-> id, bot1_username |-> b1, bot2_username |-> b2,
     winner |-> w, battle_format |-> f, timestamp |-> ts]

\* the ELO part with a draw scored as a win of the higher rated participant
EloAfter_DrawFavoursHigher(e1, e2, is_draw, bot1_wins, bot2_wins) ==
    IF is_draw THEN
        LET n1 == update_elo(e1, e2, IF e1 >= e2 THEN 2 ELSE 0)
        IN  <<n1, update_elo(e2, n1, IF e1 >= e2 THEN 0 ELSE 2)>>
    ELSE IF bot1_wins THEN
        LET n1 == update_elo(e1, e2, 2) IN <<n1, update_elo(e2, n1, 0)>>
    ELSE IF bot2_wins THEN
        LET n1 == update_elo(e1, e2, 0) IN <<n1, update_elo(e2, n1, 2)>>
    ELSE <<e1, e2>>

\* The ELO part of BotMatchmaker.update_battle_result: bot1 is updated first,
\* and bot2 is then updated against bot1_stats.elo_rating as it is by then.
EloAfter(e1, e2, is_draw, bot1_wins, bot2_wins) ==
    IF is_draw THEN
        LET n1 == update_elo(e1, e2, 1) IN <<n1, update_elo(e2, n1, 1)>>
    ELSE IF bot1_wins THEN
        LET n1 == update_elo(e1, e2, 2) IN <<n1, update_elo(e2, n1, 0)>>
    ELSE IF bot2_wins THEN
        LET n1 == update_elo(e1, e2, 0) IN <<n1, update_elo(e2, n1, 2)>>
    ELSE <<e1, e2>>

\* update_battle_result with a missing winner counted as a defeat of both
update_battle_result_DrawAsLoss(stats, r) ==
    IF r.bot1_username \notin DOMAIN stats \/ r.bot2_username \notin DOMAIN stats
    THEN stats
    ELSE
        LET b1 == r.bot1_username
            b2 == r.bot2_username
            bot1_wins == r.winner = b1
            bot2_wins == r.winner = b2
            s1 == update_stats(stats[b1], bot1_wins, FALSE)
            s2 == update_stats(stats[b2], bot2_wins, FALSE)
            elo == EloAfter(s1.elo_rating, s2.elo_rating, r.winner = None,
                            bot1_wins, bot2_wins)
        IN  [stats EXCEPT ![b1] = [s1 EXCEPT !.elo_rating = elo[1]],
                          ![b2] = [s2 EXCEPT !.elo_rating = elo[2]]]

\* BotMatchmaker.update_battle_result, as a function of bot_stats
update_battle_result(stats, r) ==
    IF r.bot1_username \notin DOMAIN stats \/ r.bot2_username \notin DOMAIN stats
    THEN stats
    ELSE
        LET b1 == r.bot1_username
            b2 == r.bot2_username
            is_draw == r.winner = None
            bot1_wins == r.winner = b1
            bot2_wins == r.winner = b2
            s1 == update_stats(stats[b1], bot1_wins, is_draw)
            s2 == update_stats(stats[b2], bot2_wins, is_draw)
            elo == EloAfter(s1.elo_rating, s2.elo_rating, is_draw, bot1_wins, bot2_wins)
        IN  [stats EXCEPT ![b1] = [s1 EXCEPT !.elo_rating = elo[1]],
                          ![b2] = [s2 EXCEPT !.elo_rating = elo[2]]]

\* register_bot without the test "if username not in self.bot_stats"
register_bot_Resets(stats, username, initial_elo) ==
    [u \in DOMAIN stats \cup {username} |->
        IF u = username THEN NewBotStats(initial_elo) ELSE stats[u]]

\* BotMatchmaker.register_bot, as a function of bot_stats
register_bot(stats, username, initial_elo) ==
    IF username \in DOMAIN stats THEN stats
    ELSE [u \in DOMAIN stats \cup {username} |->
             IF u = username THEN NewBotStats(initial_elo) ELSE stats[u]]

----------------------------------------------------------------------------
(* Match Queue and Pairing Engine: BotMatchmaker *)

ELO_THRESHOLD == 200        \* self.elo_threshold
MAX_QUEUE_SIZE == 100       \* self.max_queue_size
DEFAULT_MAX_WAIT == 5       \* MatchRequest.max_wait_time = 300.0 seconds
WEB_MAX_WAIT == 1           \* max_wait_time = 60.0 seconds of web-requested battles
PRIORITY_BASE == 1000       \* priority = int(1000 - best_elo_diff)
RANDOM_PRIORITY == 100
SWISS_PRIORITY == 200
RECENT_THRESHOLD == 5       \* _have_played_recently(recent_threshold = 5)
Strategies == {"elo_based", "random_pairing", "swiss_system"}

Abs(x) == IF x < 0 THEN -x ELSE x
RemoveAt(seq, i) == SubSeq(seq, 1, i - 1) \o SubSeq(seq, i + 1, Len(seq))
Swap(seq, i, j) == [seq EXCEPT ![i] = seq[j], ![j] = seq[i]]

\* MatchRequest; rid stands for the identity of the Python object
MatchRequest(rid, bot, fmt, excluded, wait, t) ==
    [rid |-> rid, bot_username |-> bot, battle_format |-> fmt,
     excluded_opponents |-> excluded, max_wait_time |-> wait, created_time |-> t]

MatchPairing(b1, b2, fmt, prio, t) ==
    [bot1_username |-> b1, bot2_username |-> b2, battle_format |-> fmt,
     priority |-> prio, created_time |-> t]

\* a pairing together with the two requests it was made from
Made(p, r1, r2) == [pairing |-> p, request1 |-> r1, request2 |-> r2]

\* _can_pair_bots without the checks against active_bots
can_pair_bots_NoActiveCheck(request1, request2) ==
    IF request2.bot_username \in request1.excluded_opponents THEN FALSE
    ELSE IF request1.bot_username \in request2.excluded_opponents THEN FALSE
    ELSE IF request1.bot_username = request2.bot_username THEN FALSE
    ELSE TRUE

\* _can_pair_bots without the check that the bots are the same
can_pair_bots_NoSameCheck(request1, request2) ==
    IF request2.bot_username \in request1.excluded_opponents THEN FALSE
    ELSE IF request1.bot_username \in request2.excluded_opponents THEN FALSE
    ELSE IF request1.bot_username \notin active_bots THEN FALSE
    ELSE IF request2.bot_username \notin active_bots THEN FALSE
    ELSE TRUE

\* BotMatchmaker._can_pair_bots
can_pair_bots(request1, request2) ==
    IF request2.bot_username \in request1.excluded_opponents THEN FALSE
    ELSE IF request1.bot_username \in request2.excluded_opponents THEN FALSE
    ELSE IF request1.bot_username = request2.bot_username THEN FALSE
    ELSE IF request1.bot_username \notin active_bots THEN FALSE
    ELSE IF request2.bot_username \notin active_bots THEN FALSE
    ELSE TRUE

\* _have_played_recently over the last four entries
have_played_recently_Last4(bot1, bot2) ==
    \E i \in 1..Len(match_history) :
        /\ i > Len(match_history) - 4
        /\ match_history[i] = <<bot1, bot2>> \/ match_history[i] = <<bot2, bot1>>

\* BotMatchmaker._have_played_recently
have_played_recently(bot1, bot2) ==
    LET n == Len(match_history)
        recent_matches == SubSeq(match_history,
                                 IF n > RECENT_THRESHOLD THEN n - RECENT_THRESHOLD + 1 ELSE 1, n)
    IN  \E i \in 1..Len(recent_matches) :
            recent_matches[i] = <<bot1, bot2>> \/ recent_matches[i] = <<bot2, bot1>>

\* the sort keys of _create_elo_pairings (ascending elo_rating) and of
\* _create_swiss_pairings ((win_rate, total_battles), reverse = True)
SortsBefore(a, b, mode) ==
    LET sa == bot_stats[a.bot_username]
        sb == bot_stats[b.bot_username]
    IN  IF mode = "elo" THEN sa.elo_rating < sb.elo_rating
        ELSE LET wa == sa.win_rate[1] * sb.win_rate[2]
                 wb == sb.win_rate[1] * sa.win_rate[2]
             IN  wa > wb \/ (wa = wb /\ sa.total_battles > sb.total_battles)

\* list.sort is stable: x goes behind every element it does not sort before
RECURSIVE InsertSorted(_, _, _)
InsertSorted(out, x, mode) ==
    IF out = <<>> THEN <<x>>
    ELSE IF SortsBefore(x, Head(out), mode) THEN <<x>> \o out
    ELSE <<Head(out)>> \o InsertSorted(Tail(out), x, mode)

RECURSIVE SortRequests(_, _)
SortRequests(requests, mode) ==
    IF requests = <<>> THEN <<>>
    ELSE InsertSorted(SortRequests(SubSeq(requests, 1, Len(requests) - 1), mode),
                      requests[Len(requests)], mode)

\* "priority = int(1000 - best_elo_diff)": int() drops the fraction
elo_priority(best_elo_diff) == (Rating(PRIORITY_BASE) - best_elo_diff) \div RatingUnit

\* the scan for the best match of _create_elo_pairings: <<best_match_idx, best_elo_diff>>,
\* best_match_idx = 0 for None (best_elo_diff is then float('inf'))
RECURSIVE best_elo_match(_, _, _, _, _)
best_elo_match(request1, available, i, best_idx, best_diff) ==
    IF i > Len(available) THEN <<best_idx, best_diff>>
    ELSE
        LET elo_diff == Abs(bot_stats[request1.bot_username].elo_rating
                            - bot_stats[available[i].bot_username].elo_rating)
        IN  IF /\ elo_diff <= Rating(ELO_THRESHOLD)
               /\ (best_idx = 0 \/ elo_diff < best_diff)
               /\ can_pair_bots(request1, available[i])
            THEN best_elo_match(request1, available, i + 1, i, elo_diff)
            ELSE best_elo_match(request1, available, i + 1, best_idx, best_diff)

\* the while loop of _create_elo_pairings over the sorted requests
RECURSIVE elo_pairing_loop(_, _)
elo_pairing_loop(available, battle_format) ==
    IF Len(available) < 2 THEN <<>>
    ELSE
        LET request1 == Head(available)
            rest == Tail(available)
            best == best_elo_match(request1, rest, 1, 0, 0)
        IN  IF best[1] # 0
            THEN <<Made(MatchPairing(request1.bot_username, rest[best[1]].bot_username,
                                     battle_format, elo_priority(best[2]), now),
                        request1, rest[best[1]])>>
                 \o elo_pairing_loop(RemoveAt(rest, best[1]), battle_format)
            ELSE elo_pairing_loop(rest, battle_format)

\* the while loop over the requests in the order of the queue
create_elo_pairings_Unsorted(requests, battle_format) ==
    elo_pairing_loop(requests, battle_format)

\* BotMatchmaker._create_elo_pairings
create_elo_pairings(requests, battle_format) ==
    elo_pairing_loop(SortRequests(requests, "elo"), battle_format)

\* the while loop of _create_random_pairings: pop() takes from the end
RECURSIVE random_pairing_loop(_, _)
random_pairing_loop(available, battle_format) ==
    IF Len(available) < 2 THEN <<>>
    ELSE
        LET n == Len(available)
            request1 == available[n]
            request2 == available[n - 1]
        IN  (IF can_pair_bots(request1, request2)
             THEN <<Made(MatchPairing(request1.bot_username, request2.bot_username,
                                      battle_format, RANDOM_PRIORITY, now),
                         request1, request2)>>
             ELSE <<>>)
            \o random_pairing_loop(SubSeq(available, 1, n - 2), battle_format)

\* BotMatchmaker._create_random_pairings; shuffled is the order random.shuffle left
create_random_pairings(shuffled, battle_format) ==
    random_pairing_loop(shuffled, battle_format)

\* the scan of _create_swiss_pairings: index of the first opponent, 0 for None
RECURSIVE first_swiss_match(_, _, _)
first_swiss_match(request1, available, i) ==
    IF i > Len(available) THEN 0
    ELSE IF /\ can_pair_bots(request1, available[i])
            /\ ~have_played_recently(request1.bot_username, available[i].bot_username)
         THEN i
         ELSE first_swiss_match(request1, available, i + 1)

RECURSIVE swiss_pairing_loop(_, _)
swiss_pairing_loop(available, battle_format) ==
    IF Len(available) < 2 THEN <<>>
    ELSE
        LET request1 == Head(available)
            rest == Tail(available)
            best == first_swiss_match(request1, rest, 1)
        IN  IF best # 0
            THEN <<Made(MatchPairing(request1.bot_username, rest[best].bot_username,
                                     battle_format, SWISS_PRIORITY, now),
                        request1, rest[best])>>
                 \o swiss_pairing_loop(RemoveAt(rest, best), battle_format)
            ELSE swiss_pairing_loop(rest, battle_format)

\* BotMatchmaker._create_swiss_pairings
create_swiss_pairings(requests, battle_format) ==
    swiss_pairing_loop(SortRequests(requests, "swiss"), battle_format)

\* BotMatchmaker._create_pairings
create_pairings(requests, battle_format, shuffled) ==
    IF strategy = "elo_based" THEN create_elo_pairings(requests, battle_format)
    ELSE IF strategy = "random_pairing" THEN create_random_pairings(shuffled, battle_format)
    ELSE IF strategy = "swiss_system" THEN create_swiss_pairings(requests, battle_format)
    ELSE create_elo_pairings(requests, battle_format)

\* MatchPairing.__lt__
PairingLess(a, b) == a.priority > b.priority

\* heapq._siftdown(heap, startpos, pos), positions counted from 1
RECURSIVE siftdown(_, _, _)
siftdown(heap, startpos, pos) ==
    IF pos > startpos /\ PairingLess(heap[pos], heap[pos \div 2])
    THEN siftdown(Swap(heap, pos, pos \div 2), startpos, pos \div 2)
    ELSE heap

\* the descent of heapq._siftup: <<heap, leaf position reached>>
RECURSIVE siftup_descend(_, _)
siftup_descend(heap, pos) ==
    LET childpos == 2 * pos
        rightpos == childpos + 1
    IN  IF childpos > Len(heap) THEN <<heap, pos>>
        ELSE LET c == IF rightpos <= Len(heap) /\ ~PairingLess(heap[childpos], heap[rightpos])
                      THEN rightpos ELSE childpos
             IN  siftup_descend(Swap(heap, pos, c), c)

\* heapq.heappush
heappush(heap, item) == siftdown(Append(heap, item), 1, Len(heap) + 1)

\* heapq.heappop: <<item returned, heap left>>
heappop(heap) ==
    LET lastelt == heap[Len(heap)]
        rest == SubSeq(heap, 1, Len(heap) - 1)
    IN  IF rest = <<>> THEN <<lastelt, rest>>
        ELSE LET d == siftup_descend([rest EXCEPT ![1] = lastelt], 1)
             IN  <<rest[1], siftdown(d[1], 1, d[2])>>

RECURSIVE PushAll(_, _)
PushAll(heap, made) ==
    IF made = <<>> THEN heap
    ELSE PushAll(heappush(heap, Head(made).pairing), Tail(made))

\* the expiry test with <= for <
Unexpired_Inclusive(req, current_time) == current_time - req.created_time <= req.max_wait_time

\* "current_time - req.created_time < req.max_wait_time"
Unexpired(req, current_time) == current_time - req.created_time < req.max_wait_time

\* the keys of format_groups in insertion order
RECURSIVE FormatOrder(_)
FormatOrder(queue) ==
    IF queue = <<>> THEN <<>>
    ELSE LET front == FormatOrder(SubSeq(queue, 1, Len(queue) - 1))
             f == queue[Len(queue)].battle_format
         IN  IF \E i \in 1..Len(front) : front[i] = f THEN front ELSE Append(front, f)

GroupOf(queue, f) == SelectSeq(queue, LAMBDA r : r.battle_format = f)

PermsOf(seq) ==
    {[i \in 1..Len(seq) |-> seq[p[i]]] : p \in Permutations(1..Len(seq))}

\* the outcomes of random.shuffle for each format group (the given order when
\* the strategy does not shuffle)
Shuffles(queue) ==
    IF strategy = "random_pairing"
    THEN {[f \in Formats |-> IF f = "f1" THEN s1 ELSE s2] :
             s1 \in PermsOf(GroupOf(queue, "f1")), s2 \in PermsOf(GroupOf(queue, "f2"))}
    ELSE {[f \in Formats |-> GroupOf(queue, f)]}

\* "for battle_format, requests in format_groups.items()"
RECURSIVE NewPairings(_, _, _)
NewPairings(queue, formats, sh) ==
    IF formats = <<>> THEN <<>>
    ELSE LET requests == GroupOf(queue, Head(formats))
         IN  (IF Len(requests) < 2 THEN <<>>
              ELSE create_pairings(requests, Head(formats), sh[Head(formats)]))
             \o NewPairings(queue, Tail(formats), sh)

MatchedBots(made) ==
    {made[i].pairing.bot1_username : i \in 1..Len(made)}
      \cup {made[i].pairing.bot2_username : i \in 1..Len(made)}

\* "self.match_queue = [req for req in self.match_queue if req.bot_username not in matched_bots]"
RemoveMatched(queue, matched_bots) ==
    SelectSeq(queue, LAMBDA r : r.bot_username \notin matched_bots)

\* a full test that lets one request too many in
queue_full_OffByOne(queue) == Len(queue) > MAX_QUEUE_SIZE

\* "if len(self.match_queue) >= self.max_queue_size" of add_match_request
queue_full(queue) == Len(queue) >= MAX_QUEUE_SIZE

\* BotMatchmaker._process_match_queue from the eviction on; live is the queue
\* after the eviction, sh the shuffle
process_match_queue(live, sh) ==
    LET made == NewPairings(live, FormatOrder(live), sh)
    IN  [queue |-> RemoveMatched(live, MatchedBots(made)),
         heap |-> PushAll(pairing_queue, made),
         made |-> made]

Evict(queue, current_time) == SelectSeq(queue, LAMBDA r : Unexpired(r, current_time))

----------------------------------------------------------------------------
(* The parts of the system that a specification leaves switched off *)

\* no matchmaking loop has been started
NoLoop ==
    /\ mm_pc = "off" /\ battles_started = 0 /\ in_battle = <<>>
    /\ pending_tasks = 0 /\ last_start = <<>>

\* the continuous runner has not been started
NoRunner ==
    /\ run_pc = "off" /\ running = FALSE /\ poll_idx = 0
    /\ processed_battles = {} /\ applied = <<>> /\ stopped_at = <<>>

\* LeaderboardManager.__init__ without a data file
NoLeaderboard ==
    /\ lb_history = <<>> /\ lb_stats = <<>> /\ last_post = <<>> /\ last_upsert = <<>>
    /\ lb_order = <<>> /\ data_file = <<>> /\ save_pc = "idle"

\* WebBattleServer.__init__
NoWeb == web_threads = <<>> /\ battle_status = "idle" /\ current_battle = <<>>

\* the players' battle counters are not looked at
NoPlayers == counters = <<>> /\ initial = <<>> /\ unknown_battles = {} /\ decision = <<>>

\* run_tournament has not been called
NoTournament == tournament = <<>>

----------------------------------------------------------------------------
(* Specification SpecElo: registrations and applied battle results *)

InitElo ==
    /\ bot_stats = <<>>
    /\ battle_results = <<>>
    /\ next_battle = 0
    /\ last_update = <<>>
    /\ active_bots = {}
    /\ strategy = "elo_based"
    /\ match_queue = <<>>
    /\ pairing_queue = <<>>
    /\ match_history = <<>>
    /\ next_request = 0
    /\ last_add = <<>>
    /\ cycle = <<>>
    /\ now = 0
    /\ NoLoop /\ NoRunner /\ NoLeaderboard /\ NoWeb /\ NoTournament /\ NoPlayers

\* BotMatchmaker.register_bot, for a new username or a registered one
RegisterBot ==
    \E u \in Bots, e \in {Rating(DEFAULT_ELO), Rating(1400)} :
        /\ bot_stats' = register_bot(bot_stats, u, e)
        /\ UNCHANGED <<last_update, managerVars, strategy, playerVars, queueVars, now,
                     loopVars, runnerVars, lbVars, webVars, tournament>>

\* update_battle_result is called with the result of a battle between two
\* registered bots; the winner is one of the two or None (_determine_winner).
ApplyResult ==
    \E b1 \in DOMAIN bot_stats, b2 \in DOMAIN bot_stats :
      \E w \in {b1, b2, None} :
        /\ b1 # b2
        /\ next_battle < MaxBattles
        /\ LET r == BattleResult(next_battle + 1, b1, b2, w, "f1", now) IN
             /\ bot_stats' = update_battle_result(bot_stats, r)
             /\ last_update' = <<[result |-> r, before |-> bot_stats,
                                  after |-> update_battle_result(bot_stats, r)]>>
        /\ next_battle' = next_battle + 1
        /\ UNCHANGED <<active_bots, battle_results, strategy, playerVars, queueVars, now,
                     loopVars, runnerVars, lbVars, webVars, tournament>>

NextElo == RegisterBot \/ ApplyResult

SpecElo == InitElo /\ [][NextElo]_vars

----------------------------------------------------------------------------
(* Specification SpecMM: the match queue and the pairing engine *)

\* the registered bots and their ratings at the start
StartStats ==
    [b \in Bots |-> NewBotStats(Rating(IF b = "b1" THEN 1000 ELSE IF b = "b2" THEN 1190 ELSE 1400))]

\* the bots created at the start; the others are created by CreateBot
StartActive == {"b1", "b2"}

\* the requests submitted: the default request of the continuous runner, one
\* that excludes the next bot, a web-requested one (60 seconds), and one for
\* another format
NextBot(bot) == IF bot = "b1" THEN "b2" ELSE IF bot = "b2" THEN "b3" ELSE "b1"
RequestChoices(bot) ==
    { [battle_format |-> "f1", excluded_opponents |-> {}, max_wait_time |-> DEFAULT_MAX_WAIT],
      [battle_format |-> "f1", excluded_opponents |-> {NextBot(bot)},
       max_wait_time |-> DEFAULT_MAX_WAIT],
      [battle_format |-> "f1", excluded_opponents |-> {}, max_wait_time |-> WEB_MAX_WAIT],
      [battle_format |-> "f2", excluded_opponents |-> {}, max_wait_time |-> DEFAULT_MAX_WAIT] }

InitMM ==
    /\ bot_stats = StartStats
    /\ last_update = <<>>
    /\ active_bots = StartActive
    /\ battle_results = <<>>
    /\ next_battle = 0
    /\ strategy \in Strategies
    /\ match_queue = <<>>
    /\ pairing_queue = <<>>
    /\ match_history = <<>>
    /\ next_request = 0
    /\ last_add = <<>>
    /\ cycle = <<>>
    /\ now = 0
    /\ NoLoop /\ NoRunner /\ NoLeaderboard /\ NoWeb /\ NoTournament /\ NoPlayers

\* BotManager.create_bot
CreateBot ==
    \E u \in Bots \ active_bots :
        /\ active_bots' = active_bots \cup {u}
        /\ UNCHANGED <<ratingVars, battle_results, next_battle, strategy, playerVars, queueVars, now,
                     loopVars, runnerVars, lbVars, webVars, tournament>>

\* BotMatchmaker.add_match_request
AddMatchRequest ==
    \E bot \in Bots :
      \E c \in RequestChoices(bot) :
        /\ next_request < MaxRequests
        /\ IF queue_full(match_queue)
           THEN /\ last_add' = <<[rid |-> next_request + 1, bot |-> bot, returned |-> FALSE]>>
                /\ UNCHANGED <<bot_stats, match_queue>>
           ELSE /\ bot_stats' = register_bot(bot_stats, bot, Rating(DEFAULT_ELO))
                /\ match_queue' = Append(match_queue,
                       MatchRequest(next_request + 1, bot, c.battle_format,
                                    c.excluded_opponents, c.max_wait_time, now))
                /\ last_add' = <<[rid |-> next_request + 1, bot |-> bot, returned |-> TRUE]>>
        /\ next_request' = next_request + 1
        /\ UNCHANGED <<last_update, managerVars, strategy, playerVars, pairing_queue, match_history,
                       cycle, now, loopVars, runnerVars, lbVars, webVars, tournament>>

\* one run of BotMatchmaker._process_match_queue
RunProcessMatchQueue ==
    LET live == Evict(match_queue, now) IN
    \E sh \in Shuffles(live) :
        LET out == process_match_queue(live, sh) IN
        /\ match_queue' = out.queue
        /\ pairing_queue' = out.heap
        /\ cycle' = <<[time |-> now, stats |-> bot_stats, active |-> active_bots,
                       queue |-> match_queue, made |-> out.made, after |-> out.queue]>>

\* BotMatchmaker._process_match_queue, run as the task that add_match_request
\* creates or by the matchmaking loop
ProcessMatchQueue ==
    /\ RunProcessMatchQueue
    /\ UNCHANGED <<ratingVars, managerVars, strategy, playerVars, match_history, next_request,
                   last_add, now, loopVars, runnerVars, lbVars, webVars, tournament>>

Tick ==
    /\ now < MaxTime
    /\ now' = now + 1
    /\ UNCHANGED <<ratingVars, managerVars, strategy, playerVars, queueVars,
                 loopVars, runnerVars, lbVars, webVars, tournament>>

NextMM == CreateBot \/ AddMatchRequest \/ ProcessMatchQueue \/ Tick

SpecMM == InitMM /\ [][NextMM]_vars

\* a queue that is two requests short of max_queue_size: requests of b1 for
\* one format (they were numbered before the requests counted in
\* next_request)
Backlog ==
    [i \in 1..(MAX_QUEUE_SIZE - 2) |->
        MatchRequest(MAX_QUEUE_SIZE + i, "b1", "f1", {}, DEFAULT_MAX_WAIT, 0)]

\* Specification SpecFull: submissions to a match queue that is nearly full,
\* made back to back: the _process_match_queue tasks that add_match_request
\* creates do not run before the submitter gives up control
InitFull ==
    /\ bot_stats = [b \in {"b1", "b2"} |-> StartStats[b]]
    /\ last_update = <<>>
    /\ active_bots = StartActive
    /\ battle_results = <<>>
    /\ next_battle = 0
    /\ strategy = "elo_based"
    /\ match_queue = Backlog
    /\ pairing_queue = <<>>
    /\ match_history = <<>>
    /\ next_request = 0
    /\ last_add = <<>>
    /\ cycle = <<>>
    /\ now = 0
    /\ NoLoop /\ NoRunner /\ NoLeaderboard /\ NoWeb /\ NoTournament /\ NoPlayers

NextFull == AddMatchRequest \/ Tick

SpecFull == InitFull /\ [][NextFull]_vars

----------------------------------------------------------------------------
(* Specification SpecEloPair: the ELO strategy applied to the queues of up   *)
(* to MaxRequests requests of three active bots, for every assignment of the *)
(* ratings PairRatings to the bots                                           *)

PairRatings == {Rating(1000), Rating(1190), Rating(1400)}

InitEloPair ==
    /\ bot_stats \in [Bots -> {NewBotStats(e) : e \in PairRatings}]
    /\ last_update = <<>>
    /\ active_bots = Bots
    /\ battle_results = <<>>
    /\ next_battle = 0
    /\ strategy = "elo_based"
    /\ match_queue = <<>>
    /\ pairing_queue = <<>>
    /\ match_history = <<>>
    /\ next_request = 0
    /\ last_add = <<>>
    /\ cycle = <<>>
    /\ now = 0
    /\ NoLoop /\ NoRunner /\ NoLeaderboard /\ NoWeb /\ NoTournament /\ NoPlayers

NextEloPair == AddMatchRequest \/ ProcessMatchQueue

SpecEloPair == InitEloPair /\ [][NextEloPair]_vars

----------------------------------------------------------------------------
(* Specification SpecRun: the continuous runner, the matchmaking loop it    *)
(* starts and the battles the loop runs, as tasks of one asyncio event loop *)
(* (a task runs without interruption from one await to the next).  The      *)
(* runner imports its matchmaker from src.bot_vs_bot.bot_matchmaker, which  *)
(* is not part of the sources; the loop here is the one of                  *)
(* src/bot_matchmaker.py, which has no stop check and ends by cancellation. *)

MAX_BATTLES_PER_CYCLE == 3
REFILL_BELOW == 2

\* the bots of the configuration, in the order of config.bot_configs
RunBots == <<"b1", "b2">>

\* LeaderboardManager.update_from_matchmaker: the battle history
RECURSIVE history_from_matchmaker(_, _)
history_from_matchmaker(history, results) ==
    IF results = <<>> THEN history
    ELSE history_from_matchmaker(
             IF \E i \in 1..Len(history) : history[i] = Head(results)
             THEN history ELSE Append(history, Head(results)),
             Tail(results))

\* an upsert that adds the incoming counts to the stored ones
stats_from_matchmaker_Sums(stored, stats) ==
    [u \in DOMAIN stored \cup DOMAIN stats |->
        IF u \notin DOMAIN stats THEN stored[u]
        ELSE IF u \notin DOMAIN stored THEN stats[u]
        ELSE [stats[u] EXCEPT !.wins = stored[u].wins + stats[u].wins,
                              !.losses = stored[u].losses + stats[u].losses,
                              !.draws = stored[u].draws + stats[u].draws,
                              !.total_battles = stored[u].total_battles
                                                    + stats[u].total_battles]]

\* LeaderboardManager.update_from_matchmaker: the rating records
stats_from_matchmaker(stored, stats) ==
    [u \in DOMAIN stored \cup DOMAIN stats |->
        IF u \in DOMAIN stats THEN stats[u] ELSE stored[u]]

\* the keys of a matchmaker's bot_stats in insertion order: in every
\* specification here the bots are registered in the order b1, b2, b3
KeyOrder(stats) == SelectSeq(<<"b1", "b2", "b3">>, LAMBDA b : b \in DOMAIN stats)

\* "self.bot_stats[username] = ..." for the usernames of incoming, in order:
\* a new key goes to the end, a key already held keeps its place
RECURSIVE order_from_matchmaker(_, _)
order_from_matchmaker(order, incoming) ==
    IF incoming = <<>> THEN order
    ELSE order_from_matchmaker(
             IF \E i \in 1..Len(order) : order[i] = Head(incoming)
             THEN order ELSE Append(order, Head(incoming)),
             Tail(incoming))

\* asdict(stats) of a BotStats, as JSON
stats_asdict(username, s) ==
    [username |-> username, elo_rating |-> s.elo_rating, wins |-> s.wins,
     losses |-> s.losses, draws |-> s.draws, total_battles |-> s.total_battles,
     win_rate |-> s.win_rate]

\* BotStats(username=username, **stats_copy) that forgets the draws
stats_from_json_DropsDraws(d) ==
    [elo_rating |-> d.elo_rating, wins |-> d.wins, losses |-> d.losses,
     draws |-> 0, total_battles |-> d.total_battles, win_rate |-> d.win_rate]

\* BotStats(username=username, **stats_copy) after stats_copy.pop('username')
stats_from_json(d) ==
    [elo_rating |-> d.elo_rating, wins |-> d.wins, losses |-> d.losses,
     draws |-> d.draws, total_battles |-> d.total_battles, win_rate |-> d.win_rate]

\* asdict(result) of a BattleResult, as JSON
result_asdict(r) ==
    [battle_id |-> r.battle_id, bot1_username |-> r.bot1_username,
     bot2_username |-> r.bot2_username, winner |-> r.winner,
     battle_format |-> r.battle_format, timestamp |-> <<r.timestamp>>]

\* save_data: the JSON text of the data, "bot_stats" as the list of its
\* key/value pairs in the order of the dict
save_data(order, stats, history) ==
    [bot_stats |-> [i \in 1..Len(order) |-> <<order[i], stats_asdict(order[i], stats[order[i]])>>],
     battle_history |-> [i \in 1..Len(history) |-> result_asdict(history[i])],
     closed |-> TRUE]

\* the file right after open(self.data_file, 'w')
Truncated == [bot_stats |-> <<>>, battle_history |-> <<>>, closed |-> FALSE]

\* the file when the writer's buffer has been flushed once before the end
Flushed(order, stats) ==
    [bot_stats |-> save_data(order, stats, <<>>).bot_stats,
     battle_history |-> <<>>, closed |-> FALSE]

\* the inner loop of BotMatchmaker.run_continuous_matchmaking from a call of
\* start_next_battle up to the next await: [pc, heap, in_battle, failed]
StartNext(heap, started) ==
    IF started >= MAX_BATTLES_PER_CYCLE \/ heap = <<>>
    THEN [pc |-> "sleep", heap |-> heap, in_battle |-> <<>>, failed |-> <<>>]
    ELSE LET pairing == heappop(heap)[1]
             left == heappop(heap)[2]
         IN  IF pairing.bot1_username \notin active_bots
                  \/ pairing.bot2_username \notin active_bots
             THEN [pc |-> "sleep", heap |-> left, in_battle |-> <<>>,
                   failed |-> <<[pairing |-> pairing, returned |-> <<>>,
                                 attempt |-> next_battle + 1]>>]
             ELSE [pc |-> "battle", heap |-> left, failed |-> <<>>,
                   in_battle |-> <<[pairing |-> pairing, battle_id |-> next_battle + 1]>>]

\* the loop from a call of start_next_battle with battles_started = started;
\* returned is what start_next_battle returned last before that call
LoopGoesOn(heap, started, returned) ==
    LET out == StartNext(heap, started) IN
    /\ out.pc = "battle" => next_battle < MaxBattles
    /\ mm_pc' = out.pc
    /\ pairing_queue' = out.heap
    /\ in_battle' = out.in_battle
    /\ next_battle' = IF out.pc = "battle" THEN next_battle + 1 ELSE next_battle
    /\ last_start' = IF out.failed # <<>> THEN out.failed ELSE returned

\* run_continuous_matchmaking wakes up: _process_match_queue, then the first
\* start_next_battle of the cycle
MMCycle ==
    /\ mm_pc = "sleep"
    /\ LET live == Evict(match_queue, now) IN
       \E sh \in Shuffles(live) :
          LET out == process_match_queue(live, sh) IN
          /\ match_queue' = out.queue
          /\ cycle' = <<[time |-> now, stats |-> bot_stats, active |-> active_bots,
                         queue |-> match_queue, made |-> out.made, after |-> out.queue]>>
          /\ LoopGoesOn(out.heap, 0, last_start)
    /\ battles_started' = 0
    /\ UNCHANGED <<ratingVars, active_bots, battle_results, strategy, playerVars, match_history,
                   next_request, last_add, now, pending_tasks, runnerVars, lbVars, webVars, tournament>>

\* start_bot_battle returns: the result is recorded, start_next_battle notes
\* the match and returns the battle id, and the loop goes on
MMBattleCompletes ==
    /\ mm_pc = "battle"
    /\ \E w \in {in_battle[1].pairing.bot1_username, in_battle[1].pairing.bot2_username, None} :
          battle_results' = Append(battle_results,
              BattleResult(in_battle[1].battle_id, in_battle[1].pairing.bot1_username,
                           in_battle[1].pairing.bot2_username, w,
                           in_battle[1].pairing.battle_format, now))
    /\ match_history' = Append(match_history,
           <<in_battle[1].pairing.bot1_username, in_battle[1].pairing.bot2_username>>)
    /\ battles_started' = battles_started + 1
    /\ LoopGoesOn(pairing_queue, battles_started + 1,
                  <<[pairing |-> in_battle[1].pairing, returned |-> <<in_battle[1].battle_id>>,
                     attempt |-> in_battle[1].battle_id]>>)
    /\ UNCHANGED <<ratingVars, active_bots, strategy, playerVars, match_queue, next_request, last_add, cycle,
                   now, pending_tasks, runnerVars, lbVars, webVars, tournament>>

\* start_bot_battle with an added result for the battle that failed
MMBattleFails_Fabricates ==
    /\ mm_pc = "battle"
    /\ mm_pc' = "sleep"
    /\ in_battle' = <<>>
    /\ last_start' = <<[pairing |-> in_battle[1].pairing, returned |-> <<>>,
                         attempt |-> in_battle[1].battle_id]>>
    /\ battle_results' = Append(battle_results,
           BattleResult(in_battle[1].battle_id, in_battle[1].pairing.bot1_username,
                        in_battle[1].pairing.bot2_username, None,
                        in_battle[1].pairing.battle_format, now))
    /\ UNCHANGED <<ratingVars, active_bots, next_battle, strategy, playerVars, queueVars, now,
                   battles_started, pending_tasks, runnerVars, lbVars, webVars, tournament>>

\* start_bot_battle raises: start_next_battle logs the error and returns None,
\* the loop leaves its inner loop and sleeps
MMBattleFails ==
    /\ mm_pc = "battle"
    /\ mm_pc' = "sleep"
    /\ in_battle' = <<>>
    /\ last_start' = <<[pairing |-> in_battle[1].pairing, returned |-> <<>>,
                         attempt |-> in_battle[1].battle_id]>>
    /\ UNCHANGED <<ratingVars, managerVars, strategy, playerVars, queueVars, now,
                   battles_started, pending_tasks, runnerVars, lbVars, webVars, tournament>>

\* a task created by add_match_request runs _process_match_queue
TaskProcessMatchQueue ==
    /\ pending_tasks > 0
    /\ pending_tasks' = pending_tasks - 1
    /\ RunProcessMatchQueue
    /\ UNCHANGED <<ratingVars, managerVars, strategy, playerVars, match_history, next_request, last_add, now,
                   mm_pc, battles_started, in_battle, last_start,
                   runnerVars, lbVars, webVars, tournament>>

\* the for-loop of the runner over manager.battle_results: the first index
\* from i on whose battle_id is not in processed_battles, 0 if there is none
RECURSIVE FirstUnprocessed(_)
FirstUnprocessed(i) ==
    IF i > Len(battle_results) THEN 0
    ELSE IF battle_results[i].battle_id \notin processed_battles THEN i
    ELSE FirstUnprocessed(i + 1)

\* "for bot_config in config.bot_configs: if bot_config.username in
\* manager.active_bots: matchmaker.add_match_request(MatchRequest(...))"
RECURSIVE add_requests(_, _, _)
add_requests(queue, bots, rid) ==
    IF bots = <<>> THEN queue
    ELSE IF Head(bots) \notin active_bots \/ queue_full(queue)
    THEN add_requests(queue, Tail(bots), rid)
    ELSE add_requests(Append(queue, MatchRequest(rid + 1, Head(bots), "f1", {},
                                                 DEFAULT_MAX_WAIT, now)),
                      Tail(bots), rid + 1)

\* the monitoring loop of run_continuous_matchmaking from index start of its
\* for-loop up to the next await
RunnerPass(start) ==
    LET j == FirstUnprocessed(start) IN
    IF j # 0
    THEN LET r == battle_results[j]
             after == update_battle_result(bot_stats, r)
         IN  /\ bot_stats' = after
             /\ last_update' = <<[result |-> r, before |-> bot_stats, after |-> after]>>
             /\ processed_battles' = processed_battles \cup {r.battle_id}
             /\ applied' = Append(applied, r.battle_id)
             /\ lb_history' = history_from_matchmaker(lb_history, battle_results)
             /\ lb_stats' = stats_from_matchmaker(lb_stats, after)
             /\ last_upsert' = <<[stored |-> lb_stats, incoming |-> after]>>
             /\ lb_order' = order_from_matchmaker(lb_order, KeyOrder(after))
             /\ data_file' = <<save_data(lb_order', lb_stats', lb_history')>>
             /\ poll_idx' = j
             /\ run_pc' = "send"
             /\ UNCHANGED <<match_queue, next_request, pending_tasks>>
    ELSE LET refilled == IF Len(match_queue) < REFILL_BELOW
                         THEN add_requests(match_queue, RunBots, next_request)
                         ELSE match_queue
             added == Len(refilled) - Len(match_queue)
         IN  /\ next_request + added <= MaxRunRequests
             /\ match_queue' = refilled
             /\ next_request' = next_request + added
             /\ pending_tasks' = pending_tasks + added
             /\ poll_idx' = 0
             /\ run_pc' = IF running THEN "sleep" ELSE "stopping"
             /\ UNCHANGED <<ratingVars, processed_battles, applied, lb_history, lb_stats,
                            last_upsert, lb_order, data_file>>

\* asyncio.sleep(5) returns
RunnerWake ==
    /\ run_pc = "sleep"
    /\ RunnerPass(1)
    /\ UNCHANGED <<managerVars, strategy, playerVars, pairing_queue, match_history, last_add,
                   cycle, now, mm_pc, battles_started, in_battle, last_start,
                   running, stopped_at, last_post, save_pc, webVars, tournament>>

\* _send_update_to_web_server returns
RunnerSent ==
    /\ run_pc = "send"
    /\ RunnerPass(poll_idx + 1)
    /\ UNCHANGED <<managerVars, strategy, playerVars, pairing_queue, match_history, last_add,
                   cycle, now, mm_pc, battles_started, in_battle, last_start,
                   running, stopped_at, last_post, save_pc, webVars, tournament>>

\* signal_handler, while the monitoring loop is suspended in an await
StopSignal ==
    /\ running
    /\ run_pc \in {"sleep", "send"}
    /\ running' = FALSE
    /\ stopped_at' = <<next_battle>>
    /\ UNCHANGED <<ratingVars, managerVars, strategy, playerVars, queueVars, now, loopVars,
                   run_pc, poll_idx, processed_battles, applied, lbVars, webVars, tournament>>

\* "if end_time and time.time() >= end_time": the duration has elapsed when
\* the monitoring loop comes round; it clears running and breaks
DurationElapsed ==
    /\ running
    /\ run_pc = "sleep"
    /\ running' = FALSE
    /\ run_pc' = "stopping"
    /\ stopped_at' = <<next_battle>>
    /\ UNCHANGED <<ratingVars, managerVars, strategy, playerVars, queueVars, now, loopVars,
                   poll_idx, processed_battles, applied, lbVars, webVars, tournament>>

\* the wait for the matchmaking task ends with its cancellation; the final
\* leaderboard update, and manager.shutdown()
RunnerFinish ==
    /\ run_pc = "stopping"
    /\ run_pc' = "done"
    /\ mm_pc' = "cancelled"
    /\ in_battle' = <<>>
    /\ lb_history' = history_from_matchmaker(lb_history, battle_results)
    /\ lb_stats' = stats_from_matchmaker(lb_stats, bot_stats)
    /\ last_upsert' = <<[stored |-> lb_stats, incoming |-> bot_stats]>>
    /\ lb_order' = order_from_matchmaker(lb_order, KeyOrder(bot_stats))
    /\ data_file' = <<save_data(lb_order', lb_stats', lb_history')>>
    /\ active_bots' = {}
    /\ UNCHANGED <<ratingVars, battle_results, next_battle, strategy, playerVars, queueVars, now,
                   battles_started, pending_tasks, last_start,
                   running, poll_idx, processed_battles, applied, stopped_at,
                   last_post, save_pc, webVars, tournament>>

\* run_continuous_matchmaking of the runner up to its monitoring loop: fresh
\* ratings, all bots created and registered, one request per bot
InitRun ==
    /\ bot_stats = [b \in {RunBots[i] : i \in 1..Len(RunBots)} |-> NewBotStats(Rating(DEFAULT_ELO))]
    /\ last_update = <<>>
    /\ active_bots = {RunBots[i] : i \in 1..Len(RunBots)}
    /\ now = 0
    /\ battle_results = <<>>
    /\ next_battle = 0
    /\ strategy \in Strategies
    /\ match_queue = add_requests(<<>>, RunBots, 0)
    /\ pairing_queue = <<>>
    /\ match_history = <<>>
    /\ next_request = Len(RunBots)
    /\ last_add = <<>>
    /\ cycle = <<>>
    /\ mm_pc = "sleep" /\ battles_started = 0 /\ in_battle = <<>>
    /\ pending_tasks = Len(RunBots) /\ last_start = <<>>
    /\ run_pc = "sleep" /\ running = TRUE /\ poll_idx = 0
    /\ processed_battles = {} /\ applied = <<>> /\ stopped_at = <<>>
    /\ NoLeaderboard /\ NoWeb /\ NoTournament /\ NoPlayers

NextRun ==
    \/ MMCycle \/ MMBattleCompletes \/ MMBattleFails \/ TaskProcessMatchQueue
    \/ RunnerWake \/ RunnerSent \/ StopSignal \/ DurationElapsed \/ RunnerFinish

SpecRun == InitRun /\ [][NextRun]_vars

----------------------------------------------------------------------------
(* Specification SpecLoop: the matchmaking loop of src/bot_matchmaker.py    *)
(* over a queue that holds a pair of requests for each of the two formats,  *)
(* after one battle has been run and its result applied                     *)

\* the battle run before: any two bots, any outcome
EarlierResults ==
    {BattleResult(1, b1, b2, w, "f1", 0) :
        b1 \in Bots, b2 \in Bots, w \in Bots \cup {None}}

\* two requests for f1 and two for f2, of different bots within a format,
\* submitted format by format in either order
PairedQueues ==
    {<<MatchRequest(1, p[1], fa, {}, DEFAULT_MAX_WAIT, 0),
       MatchRequest(2, p[2], fa, {}, DEFAULT_MAX_WAIT, 0),
       MatchRequest(3, q[1], fb, {}, DEFAULT_MAX_WAIT, 0),
       MatchRequest(4, q[2], fb, {}, DEFAULT_MAX_WAIT, 0)>> :
        p \in {<<"b1", "b2">>, <<"b1", "b3">>, <<"b2", "b3">>},
        q \in {<<"b1", "b2">>, <<"b1", "b3">>, <<"b2", "b3">>},
        fa \in Formats, fb \in Formats}

InitLoop ==
    \E r \in EarlierResults :
        /\ r.bot1_username # r.bot2_username
        /\ r.winner \in {r.bot1_username, r.bot2_username, None}
        /\ bot_stats = update_battle_result([b \in Bots |-> NewBotStats(Rating(DEFAULT_ELO))], r)
        /\ last_update = <<[result |-> r,
                            before |-> [b \in Bots |-> NewBotStats(Rating(DEFAULT_ELO))],
                            after |-> bot_stats]>>
        /\ active_bots = Bots
        /\ battle_results = <<r>>
        /\ next_battle = 1
        /\ strategy \in Strategies
        /\ match_queue \in {q \in PairedQueues : q[1].battle_format # q[3].battle_format}
        /\ pairing_queue = <<>>
        /\ match_history = << <<r.bot1_username, r.bot2_username>> >>
        /\ next_request = 4
        /\ last_add = <<>>
        /\ cycle = <<>>
        /\ now = 0
        /\ mm_pc = "sleep" /\ battles_started = 0 /\ in_battle = <<>>
        /\ pending_tasks = 0 /\ last_start = <<>>
        /\ NoRunner /\ NoLeaderboard /\ NoWeb /\ NoTournament /\ NoPlayers

NextLoop == MMCycle \/ MMBattleCompletes \/ MMBattleFails

SpecLoop == InitLoop /\ [][NextLoop]_vars

----------------------------------------------------------------------------
(* Specification SpecOdd: cycles of _process_match_queue on a queue that     *)
(* holds one request of each of the three bots for one format and none or    *)
(* two requests for the other format, before any battle or after one         *)

\* a request of each bot for fa, then none or two requests, of different
\* bots, for the other format
OddQueues ==
    {[i \in 1..3 |-> MatchRequest(i, p[i], fa, {}, DEFAULT_MAX_WAIT, 0)]
       \o [i \in 1..Len(extra) |->
              MatchRequest(3 + i, extra[i], IF fa = "f1" THEN "f2" ELSE "f1", {},
                           DEFAULT_MAX_WAIT, 0)] :
        p \in PermsOf(<<"b1", "b2", "b3">>), fa \in Formats,
        extra \in {<<>>} \cup {e \in Bots \X Bots : e[1] # e[2]}}

\* the battles run before: none or one
OddEarlier ==
    {<<>>} \cup {<<r>> : r \in {e \in EarlierResults :
                                   /\ e.bot1_username # e.bot2_username
                                   /\ e.winner \in {e.bot1_username, e.bot2_username, None}}}

InitOdd ==
    \E earlier \in OddEarlier :
        /\ bot_stats = IF earlier = <<>> THEN [b \in Bots |-> NewBotStats(Rating(DEFAULT_ELO))]
                       ELSE update_battle_result(
                                [b \in Bots |-> NewBotStats(Rating(DEFAULT_ELO))], earlier[1])
        /\ last_update = <<>>
        /\ active_bots = Bots
        /\ battle_results = earlier
        /\ next_battle = Len(earlier)
        /\ strategy \in Strategies
        /\ match_queue \in OddQueues
        /\ pairing_queue = <<>>
        /\ match_history = [i \in 1..Len(earlier) |->
                               <<earlier[i].bot1_username, earlier[i].bot2_username>>]
        /\ next_request = Len(match_queue)
        /\ last_add = <<>>
        /\ cycle = <<>>
        /\ now = 0
        /\ NoLoop /\ NoRunner /\ NoLeaderboard /\ NoWeb /\ NoTournament /\ NoPlayers

NextOdd == ProcessMatchQueue \/ Tick

SpecOdd == InitOdd /\ [][NextOdd]_vars

----------------------------------------------------------------------------
(* Specification SpecSwiss: one cycle of the Swiss strategy over the         *)
(* requests of up to four bots, after up to seven battles that the strategy  *)
(* had paired before and whose results were applied                          *)

SwissBots == Bots \cup {"b4"}

\* the pairings started before, oldest first: no two of them within five
\* entries of one another join the same bots
SwissSchedule ==
    << <<"b1", "b2">>, <<"b3", "b4">>, <<"b1", "b3">>, <<"b2", "b4">>,
       <<"b1", "b4">>, <<"b2", "b3">>, <<"b1", "b2">> >>

\* the results of the first k battles of the schedule, each won by its first
\* bot or drawn
SwissEarlier ==
    UNION {{[i \in 1..k |-> BattleResult(i, SwissSchedule[i][1], SwissSchedule[i][2],
                                         IF won[i] THEN SwissSchedule[i][1] ELSE None, "f1", 0)] :
               won \in [1..k -> BOOLEAN]} : k \in 0..Len(SwissSchedule)}

\* update_battle_result for each of the results in turn
RECURSIVE stats_after(_, _)
stats_after(stats, results) ==
    IF results = <<>> THEN stats
    ELSE stats_after(update_battle_result(stats, Head(results)), Tail(results))

\* the requests of two to four bots for one format, the first of them with or
\* without an excluded opponent
SwissQueues ==
    {[i \in 1..Len(p) |->
         MatchRequest(i, p[i], "f1", IF i = 1 /\ excl THEN {NextBot(p[1])} ELSE {},
                      DEFAULT_MAX_WAIT, 0)] :
        p \in {q \in UNION {[1..n -> SwissBots] : n \in 2..Cardinality(SwissBots)} :
                  \A x \in DOMAIN q : \A y \in DOMAIN q : x # y => q[x] # q[y]},
        excl \in BOOLEAN}

InitSwiss ==
    \E earlier \in SwissEarlier :
        /\ bot_stats = stats_after([b \in SwissBots |-> NewBotStats(Rating(DEFAULT_ELO))], earlier)
        /\ last_update = <<>>
        /\ active_bots \in {SwissBots, SwissBots \ {"b4"}}
        /\ battle_results = earlier
        /\ next_battle = Len(earlier)
        /\ strategy = "swiss_system"
        /\ match_queue \in SwissQueues
        /\ pairing_queue = <<>>
        /\ match_history = [i \in 1..Len(earlier) |->
                               <<earlier[i].bot1_username, earlier[i].bot2_username>>]
        /\ next_request = Len(match_queue)
        /\ last_add = <<>>
        /\ cycle = <<>>
        /\ now = 0
        /\ NoLoop /\ NoRunner /\ NoLeaderboard /\ NoWeb /\ NoTournament /\ NoPlayers

NextSwiss == ProcessMatchQueue

SpecSwiss == InitSwiss /\ [][NextSwiss]_vars

----------------------------------------------------------------------------
(* Specification SpecClock: the matchmaking loop of src/bot_matchmaker.py    *)
(* over the requests of two bots for one format, with the clock running      *)
(* while the loop sleeps and while it awaits start_bot_battle                *)

BATTLE_TIMEOUT == 10        \* BotVsBotConfig.battle_timeout = 600 seconds

\* a request of each of two bots for one format
ClockQueues ==
    {<<MatchRequest(1, p[1], f, {}, DEFAULT_MAX_WAIT, 0),
       MatchRequest(2, p[2], f, {}, DEFAULT_MAX_WAIT, 0)>> :
        p \in {e \in Bots \X Bots : e[1] # e[2]}, f \in Formats}

InitClock ==
    /\ bot_stats = [b \in Bots |-> NewBotStats(Rating(DEFAULT_ELO))]
    /\ last_update = <<>>
    /\ active_bots = Bots
    /\ battle_results = <<>>
    /\ next_battle = 0
    /\ strategy \in Strategies
    /\ match_queue \in ClockQueues
    /\ pairing_queue = <<>>
    /\ match_history = <<>>
    /\ next_request = 2
    /\ last_add = <<>>
    /\ cycle = <<>>
    /\ now = 0
    /\ mm_pc = "sleep" /\ battles_started = 0 /\ in_battle = <<>>
    /\ pending_tasks = 0 /\ last_start = <<>>
    /\ NoRunner /\ NoLeaderboard /\ NoWeb /\ NoTournament /\ NoPlayers

\* time.time() advances while the loop is suspended in an await
ClockTick ==
    /\ now < MaxClock
    /\ now' = now + 1
    /\ UNCHANGED <<ratingVars, managerVars, strategy, playerVars, queueVars,
                   loopVars, runnerVars, lbVars, webVars, tournament>>

NextClock == MMCycle \/ MMBattleCompletes \/ MMBattleFails \/ ClockTick

SpecClock == InitClock /\ [][NextClock]_vars

----------------------------------------------------------------------------
(* Specification SpecTake: run_continuous_matchmaking of src/bot_matchmaker.py *)
(* is started when a pairing already waits on the pairing queue (two         *)
(* requests were submitted and the task of add_match_request paired them)    *)
(* and two more requests have been submitted since                           *)

\* the two requests that were paired before the loop was started (they were
\* numbered before the requests counted in next_request)
TakeWaiting ==
    {<<MatchRequest(MaxRequests + 1, p[1], f, {}, DEFAULT_MAX_WAIT, 0),
       MatchRequest(MaxRequests + 2, p[2], f, {}, DEFAULT_MAX_WAIT, 0)>> :
        p \in {<<"b1", "b2">>, <<"b1", "b3">>, <<"b2", "b3">>}, f \in Formats}

\* the requests submitted since
TakeQueues ==
    {<<MatchRequest(1, p[1], f, {}, DEFAULT_MAX_WAIT, 0),
       MatchRequest(2, p[2], f, {}, DEFAULT_MAX_WAIT, 0)>> :
        p \in {<<"b1", "b2">>, <<"b1", "b3">>, <<"b2", "b3">>}, f \in Formats}

InitTake ==
    \E r \in EarlierResults, w \in TakeWaiting :
        /\ r.bot1_username # r.bot2_username
        /\ r.winner \in {r.bot1_username, r.bot2_username, None}
        /\ bot_stats = update_battle_result([b \in Bots |-> NewBotStats(Rating(DEFAULT_ELO))], r)
        /\ last_update = <<[result |-> r,
                            before |-> [b \in Bots |-> NewBotStats(Rating(DEFAULT_ELO))],
                            after |-> bot_stats]>>
        /\ active_bots = Bots
        /\ battle_results = <<r>>
        /\ next_battle = 1
        /\ strategy \in Strategies
        /\ match_history = << <<r.bot1_username, r.bot2_username>> >>
        /\ now = 0
        /\ LET made == create_pairings(w, w[1].battle_format, w) IN
           /\ pairing_queue = PushAll(<<>>, made)
           /\ cycle = <<[time |-> 0, stats |-> bot_stats, active |-> active_bots,
                         queue |-> w, made |-> made,
                         after |-> RemoveMatched(w, MatchedBots(made))]>>
           /\ \E q \in TakeQueues :
                 match_queue = RemoveMatched(w, MatchedBots(made)) \o q
        /\ next_request = 2
        /\ last_add = <<[rid |-> 2, bot |-> match_queue[Len(match_queue)].bot_username,
                         returned |-> TRUE]>>
        /\ mm_pc = "sleep" /\ battles_started = 0 /\ in_battle = <<>>
        /\ pending_tasks = 0 /\ last_start = <<>>
        /\ NoRunner /\ NoLeaderboard /\ NoWeb /\ NoTournament /\ NoPlayers

NextTake == MMCycle \/ MMBattleCompletes \/ MMBattleFails

SpecTake == InitTake /\ [][NextTake]_vars

----------------------------------------------------------------------------
(* Specification SpecReg: registrations, match requests and one more applied *)
(* result for a matchmaker in which b1 and b2 are registered and have played *)
(* each other, and b3 is not registered yet                                  *)

InitReg ==
    \E r \in EarlierResults :
        /\ r.bot1_username \in {"b1", "b2"} /\ r.bot2_username \in {"b1", "b2"}
        /\ r.bot1_username # r.bot2_username
        /\ r.winner \in {r.bot1_username, r.bot2_username, None}
        /\ bot_stats = update_battle_result(
               [b \in {"b1", "b2"} |-> NewBotStats(Rating(DEFAULT_ELO))], r)
        /\ last_update = <<[result |-> r,
                            before |-> [b \in {"b1", "b2"} |-> NewBotStats(Rating(DEFAULT_ELO))],
                            after |-> bot_stats]>>
        /\ active_bots = Bots
        /\ battle_results = <<r>>
        /\ next_battle = MaxBattles - 1
        /\ strategy = "elo_based"
        /\ match_queue = <<>>
        /\ pairing_queue = <<>>
        /\ match_history = << <<r.bot1_username, r.bot2_username>> >>
        /\ next_request = MaxRequests - 2
        /\ last_add = <<>>
        /\ cycle = <<>>
        /\ now = 0
        /\ NoLoop /\ NoRunner /\ NoLeaderboard /\ NoWeb /\ NoTournament /\ NoPlayers

NextReg == RegisterBot \/ AddMatchRequest \/ ApplyResult

SpecReg == InitReg /\ [][NextReg]_vars

----------------------------------------------------------------------------
(* Specification SpecLB: a LeaderboardManager fed by update_from_matchmaker *)
(* and by POST /api/update                                                  *)

\* asdict(result) as sent in a request body; a client may leave "timestamp" out
JsonOf(r, with_timestamp) ==
    [battle_id |-> r.battle_id, bot1_username |-> r.bot1_username,
     bot2_username |-> r.bot2_username, winner |-> r.winner,
     battle_format |-> r.battle_format,
     timestamp |-> IF with_timestamp THEN <<r.timestamp>> ELSE <<>>]

\* BattleResult(**result_data): __post_init__ sets a missing timestamp to time.time()
from_json(d) ==
    BattleResult(d.battle_id, d.bot1_username, d.bot2_username, d.winner, d.battle_format,
                 IF d.timestamp = <<>> THEN now ELSE d.timestamp[1])

\* the "battle_results" loop of api_update: <<battle_history, new_battles>>
RECURSIVE api_update_results(_, _, _)
api_update_results(history, batch, new_battles) ==
    IF batch = <<>> THEN <<history, new_battles>>
    ELSE LET result == from_json(Head(batch))
             existing_ids == {history[i].battle_id : i \in 1..Len(history)}
         IN  IF result.battle_id \notin existing_ids
             THEN api_update_results(Append(history, result), Tail(batch), new_battles + 1)
             ELSE api_update_results(history, Tail(batch), new_battles)

\* the request bodies: the first results of the bot manager as
\* _send_update_to_web_server sends them or without their timestamps, and the
\* same followed by their first result once more
Batches ==
    {[i \in 1..k |-> JsonOf(battle_results[i], ts)] :
        k \in 1..Len(battle_results), ts \in BOOLEAN}
    \cup {[i \in 1..(k + 1) |-> JsonOf(battle_results[IF i > k THEN 1 ELSE i], ts)] :
        k \in 1..Len(battle_results), ts \in BOOLEAN}

InitLB ==
    /\ bot_stats = [b \in {"b1", "b2"} |-> NewBotStats(Rating(DEFAULT_ELO))]
    /\ last_update = <<>>
    /\ active_bots = {"b1", "b2"}
    /\ battle_results = <<>>
    /\ next_battle = 0
    /\ strategy = "elo_based"
    /\ match_queue = <<>>
    /\ pairing_queue = <<>>
    /\ match_history = <<>>
    /\ next_request = 0
    /\ last_add = <<>>
    /\ cycle = <<>>
    /\ now = 0
    /\ NoLoop /\ NoRunner /\ NoLeaderboard /\ NoWeb /\ NoTournament /\ NoPlayers

\* BotManager.start_bot_battle, from its call to its return
StartBotBattle ==
    \E b1 \in active_bots, b2 \in active_bots :
      \E w \in {b1, b2, None} :
        /\ b1 # b2
        /\ next_battle < MaxBattles
        /\ next_battle' = next_battle + 1
        /\ battle_results' = Append(battle_results,
               BattleResult(next_battle + 1, b1, b2, w, "f1", now))
        /\ UNCHANGED <<ratingVars, active_bots, strategy, playerVars, queueVars, now,
                       loopVars, runnerVars, lbVars, webVars, tournament>>

\* BotMatchmaker.update_battle_result for the oldest recorded result that has
\* not been applied, as the caller of start_bot_battle does with its result
ApplyRecorded ==
    /\ Len(applied) < Len(battle_results)
    /\ LET r == battle_results[Len(applied) + 1]
           after == update_battle_result(bot_stats, r)
       IN  /\ bot_stats' = after
           /\ last_update' = <<[result |-> r, before |-> bot_stats, after |-> after]>>
           /\ applied' = Append(applied, r.battle_id)
    /\ UNCHANGED <<managerVars, strategy, playerVars, queueVars, now, loopVars,
                   run_pc, running, poll_idx, processed_battles, stopped_at,
                   lbVars, webVars, tournament>>

\* LeaderboardManager.update_from_matchmaker
UpdateFromMatchmaker ==
    /\ lb_history' = history_from_matchmaker(lb_history, battle_results)
    /\ lb_stats' = stats_from_matchmaker(lb_stats, bot_stats)
    /\ last_upsert' = <<[stored |-> lb_stats, incoming |-> bot_stats]>>
    /\ lb_order' = order_from_matchmaker(lb_order, KeyOrder(bot_stats))
    /\ data_file' = <<save_data(lb_order', lb_stats', lb_history')>>
    /\ UNCHANGED <<ratingVars, managerVars, strategy, playerVars, queueVars, now,
                   loopVars, runnerVars, last_post, save_pc, webVars, tournament>>

\* POST /api/update with bot_stats and battle_results
ApiUpdate ==
    \E batch \in Batches :
        LET out == api_update_results(lb_history, batch, 0) IN
        /\ (IF last_post = <<>> THEN 0 ELSE last_post[1].n) < MaxPosts
        /\ lb_stats' = stats_from_matchmaker(lb_stats, bot_stats)
        /\ last_upsert' = <<[stored |-> lb_stats, incoming |-> bot_stats]>>
        /\ lb_order' = order_from_matchmaker(lb_order, KeyOrder(bot_stats))
        /\ lb_history' = out[1]
        /\ data_file' = <<save_data(lb_order', lb_stats', lb_history')>>
        /\ last_post' = <<[n |-> IF last_post = <<>> THEN 1 ELSE last_post[1].n + 1,
                           batch |-> batch, new_battles |-> out[2]]>>
        /\ UNCHANGED <<ratingVars, managerVars, strategy, playerVars, queueVars, now,
                       loopVars, runnerVars, save_pc, webVars, tournament>>

LBTick ==
    /\ now < MaxTime
    /\ now' = now + 1
    /\ UNCHANGED <<ratingVars, managerVars, strategy, playerVars, queueVars,
                   loopVars, runnerVars, lbVars, webVars, tournament>>

NextLB == StartBotBattle \/ UpdateFromMatchmaker \/ ApiUpdate \/ LBTick

SpecLB == InitLB /\ [][NextLB]_vars

----------------------------------------------------------------------------
(* Specification SpecStore: a LeaderboardManager and its data file as other *)
(* processes see it: save_data opens the file for writing, which empties    *)
(* it, json.dump fills the writer's buffer, and the file is complete when   *)
(* it is closed; the process may be killed in between and started again     *)

\* load_data of a fresh LeaderboardManager: [order, stats, history]; without
\* a file, and when json.load raises, the manager stays empty
load_data(file) ==
    IF file = <<>> THEN [order |-> <<>>, stats |-> <<>>, history |-> <<>>]
    ELSE IF ~file[1].closed THEN [order |-> <<>>, stats |-> <<>>, history |-> <<>>]
    ELSE LET pairs == file[1].bot_stats
             keys == {pairs[i][1] : i \in 1..Len(pairs)}
         IN  [order |-> order_from_matchmaker(<<>>, [i \in 1..Len(pairs) |-> pairs[i][1]]),
              stats |-> [u \in keys |->
                            LET last == CHOOSE i \in 1..Len(pairs) :
                                            /\ pairs[i][1] = u
                                            /\ \A j \in (i + 1)..Len(pairs) : pairs[j][1] # u
                            IN  stats_from_json(pairs[last][2])],
              history |-> [i \in 1..Len(file[1].battle_history) |->
                              from_json(file[1].battle_history[i])]]

\* the values of sort_by that BotMatchmaker.get_leaderboard knows
MatchmakerSortKeys == {"elo", "win_rate", "wins", "total_battles"}

\* key(a) >= key(b) for the key function of bots.sort for sort_by; win_rate
\* is the float wins / total_battles
StatsKeyGeq(a, b, sort_by) ==
    CASE sort_by = "elo" -> a.elo_rating >= b.elo_rating
      [] sort_by = "win_rate" -> a.win_rate[1] * b.win_rate[2] >= b.win_rate[1] * a.win_rate[2]
      [] sort_by = "wins" -> a.wins >= b.wins
      [] OTHER -> a.total_battles >= b.total_battles

\* bots.sort(key=..., reverse=True) of BotMatchmaker.get_leaderboard
RECURSIVE sort_bots(_, _, _)
sort_bots(out, bots, sort_by) ==
    IF bots = <<>> THEN out
    ELSE LET k == Cardinality({i \in 1..Len(out) : StatsKeyGeq(out[i], Head(bots), sort_by)})
         IN  sort_bots(SubSeq(out, 1, k) \o <<Head(bots)>> \o SubSeq(out, k + 1, Len(out)),
                       Tail(bots), sort_by)

\* the values of sort_by that get_leaderboard knows
SortKeys == {"elo", "wins", "win_rate", "battles"}

\* the key function of entries.sort for sort_by
SortKey(e, sort_by) ==
    CASE sort_by = "elo" -> e.elo_rating
      [] sort_by = "wins" -> e.wins
      [] sort_by = "win_rate" -> e.win_rate
      [] OTHER -> e.total_battles

\* entries.sort(key=..., reverse=True): a stable sort, so an entry goes behind
\* the entries already placed whose key is not smaller
RECURSIVE sort_entries(_, _, _)
sort_entries(out, entries, sort_by) ==
    IF entries = <<>> THEN out
    ELSE LET e == Head(entries)
             ahead == {i \in 1..Len(out) : SortKey(out[i], sort_by) >= SortKey(e, sort_by)}
             k == Cardinality(ahead)
         IN  sort_entries(SubSeq(out, 1, k) \o <<e>> \o SubSeq(out, k + 1, Len(out)),
                          Tail(entries), sort_by)

\* seq[:n] and seq[-n:] of Python
SliceTo(seq, n) ==
    IF n >= 0 THEN SubSeq(seq, 1, IF n < Len(seq) THEN n ELSE Len(seq))
    ELSE SubSeq(seq, 1, Len(seq) + n)
LastN(seq, n) == SubSeq(seq, IF Len(seq) > n THEN Len(seq) - n + 1 ELSE 1, Len(seq))

\* user_battles of get_leaderboard: the battles of username in battle_history,
\* of the given format unless it is "all"
user_battles(username, history, battle_format) ==
    SelectSeq(history, LAMBDA b : /\ b.bot1_username = username \/ b.bot2_username = username
                                  /\ battle_format = "all" \/ b.battle_format = battle_format)

\* W, D or L for username in each of the last 5 battles; "N/A" without battles
recent_form(username, battles) ==
    LET recent == LastN(battles, 5)
    IN  IF recent = <<>> THEN <<"N/A">>
        ELSE [i \in 1..Len(recent) |-> IF recent[i].winner = username THEN "W"
                                        ELSE IF recent[i].winner = None THEN "D" ELSE "L"]

\* the loop "for battle in reversed(user_battles)" from its position i down:
\* <<current_streak, longest_win_streak, temp_streak>>
RECURSIVE win_streaks(_, _, _, _, _, _)
win_streaks(battles, i, username, current_streak, longest_win_streak, temp_streak) ==
    IF i = 0 THEN <<current_streak, longest_win_streak, temp_streak>>
    ELSE IF battles[i].winner = username
    THEN win_streaks(battles, i - 1, username, current_streak + 1,
                     IF temp_streak + 1 > longest_win_streak THEN temp_streak + 1
                     ELSE longest_win_streak,
                     temp_streak + 1)
    ELSE win_streaks(battles, i - 1, username,
                     IF current_streak = temp_streak THEN 0 ELSE current_streak,
                     longest_win_streak, 0)

\* "round(stats.win_rate * 100, 1)" in tenths of a percent
win_rate_percent(win_rate) == RoundDiv(win_rate[1] * 1000, win_rate[2])

\* the LeaderboardEntry of username; round(stats.elo_rating, 1) keeps the
\* tenths that a rating has here
LeaderboardEntry(username, s, battles) ==
    LET streaks == win_streaks(battles, Len(battles), username, 0, 0, 0)
    IN  [rank |-> 0, username |-> username, elo_rating |-> s.elo_rating,
         wins |-> s.wins, losses |-> s.losses, draws |-> s.draws,
         total_battles |-> s.total_battles, win_rate |-> win_rate_percent(s.win_rate),
         recent_form |-> recent_form(username, battles),
         longest_win_streak |-> streaks[2], current_streak |-> streaks[1]]

\* the loop over self.bot_stats.items(): a bot without battles of the format
\* asked for is skipped
RECURSIVE leaderboard_entries(_, _, _, _)
leaderboard_entries(order, stats, history, battle_format) ==
    IF order = <<>> THEN <<>>
    ELSE LET battles == user_battles(Head(order), history, battle_format)
             rest == leaderboard_entries(Tail(order), stats, history, battle_format)
         IN  IF battle_format # "all" /\ battles = <<>> THEN rest
             ELSE <<LeaderboardEntry(Head(order), stats[Head(order)], battles)>> \o rest

\* BotMatchmaker.get_leaderboard: the dictionaries of the bots, sorted; order
\* is the order of the keys of bot_stats
matchmaker_get_leaderboard(order, stats, sort_by) ==
    LET bots == [i \in 1..Len(order) |->
                    [username |-> order[i], elo_rating |-> stats[order[i]].elo_rating,
                     wins |-> stats[order[i]].wins, losses |-> stats[order[i]].losses,
                     draws |-> stats[order[i]].draws, win_rate |-> stats[order[i]].win_rate,
                     total_battles |-> stats[order[i]].total_battles]]
        sorted == IF sort_by \in MatchmakerSortKeys THEN sort_bots(<<>>, bots, sort_by)
                  ELSE bots
    IN  [i \in 1..Len(sorted) |->
            [sorted[i] EXCEPT !.win_rate = win_rate_percent(sorted[i].win_rate)]]

\* get_leaderboard without the sort
get_leaderboard_Unsorted(order, stats, history, sort_by, limit, battle_format) ==
    LET top == SliceTo(leaderboard_entries(order, stats, history, battle_format), limit)
    IN  [i \in 1..Len(top) |-> [top[i] EXCEPT !.rank = i]]

\* LeaderboardManager.get_leaderboard
get_leaderboard(order, stats, history, sort_by, limit, battle_format) ==
    LET entries == leaderboard_entries(order, stats, history, battle_format)
        sorted == IF sort_by \in SortKeys THEN sort_entries(<<>>, entries, sort_by)
                  ELSE entries
        top == SliceTo(sorted, limit)
    IN  [i \in 1..Len(top) |-> [top[i] EXCEPT !.rank = i]]

\* two battles of b1 and b2 as the bot manager has recorded them
RecordedBattles ==
    {<<BattleResult(1, "b1", "b2", w1, "f1", 0), BattleResult(2, "b2", "b1", w2, "f1", 0)>> :
        w1 \in {"b1", "b2", None}, w2 \in {"b1", "b2", None}}

InitStore ==
    /\ bot_stats = [b \in {"b1", "b2"} |-> NewBotStats(Rating(DEFAULT_ELO))]
    /\ last_update = <<>>
    /\ active_bots = {"b1", "b2"}
    /\ battle_results \in RecordedBattles
    /\ next_battle = 2
    /\ strategy = "elo_based"
    /\ match_queue = <<>>
    /\ pairing_queue = <<>>
    /\ match_history = <<>>
    /\ next_request = 0
    /\ last_add = <<>>
    /\ cycle = <<>>
    /\ now = 0
    /\ NoLoop /\ NoRunner /\ NoLeaderboard /\ NoWeb /\ NoTournament /\ NoPlayers

\* update_from_matchmaker up to the open(self.data_file, 'w') of its save_data
StoreUpdateFromMatchmaker ==
    /\ save_pc = "idle"
    /\ lb_history' = history_from_matchmaker(lb_history, battle_results)
    /\ lb_stats' = stats_from_matchmaker(lb_stats, bot_stats)
    /\ last_upsert' = <<[stored |-> lb_stats, incoming |-> bot_stats]>>
    /\ lb_order' = order_from_matchmaker(lb_order, KeyOrder(bot_stats))
    /\ data_file' = <<Truncated>>
    /\ save_pc' = "dump"
    /\ UNCHANGED <<ratingVars, managerVars, strategy, playerVars, queueVars, now,
                   loopVars, runnerVars, last_post, webVars, tournament>>

\* POST /api/update up to the open(self.data_file, 'w') of its save_data
StoreApiUpdate ==
    \E batch \in Batches :
        LET out == api_update_results(lb_history, batch, 0) IN
        /\ save_pc = "idle"
        /\ (IF last_post = <<>> THEN 0 ELSE last_post[1].n) < MaxPosts
        /\ lb_stats' = stats_from_matchmaker(lb_stats, bot_stats)
        /\ last_upsert' = <<[stored |-> lb_stats, incoming |-> bot_stats]>>
        /\ lb_order' = order_from_matchmaker(lb_order, KeyOrder(bot_stats))
        /\ lb_history' = out[1]
        /\ last_post' = <<[n |-> IF last_post = <<>> THEN 1 ELSE last_post[1].n + 1,
                           batch |-> batch, new_battles |-> out[2]]>>
        /\ data_file' = <<Truncated>>
        /\ save_pc' = "dump"
        /\ UNCHANGED <<ratingVars, managerVars, strategy, playerVars, queueVars, now,
                       loopVars, runnerVars, webVars, tournament>>

\* json.dump: the writer's buffer is flushed before the data is complete
SaveFlush ==
    /\ save_pc = "dump"
    /\ data_file' = <<Flushed(lb_order, lb_stats)>>
    /\ save_pc' = "flushed"
    /\ UNCHANGED <<ratingVars, managerVars, strategy, playerVars, queueVars, now, loopVars, runnerVars,
                   lb_history, lb_stats, last_post, last_upsert, lb_order, webVars, tournament>>

\* the with-block of save_data is left: the file is closed
SaveClose ==
    /\ save_pc \in {"dump", "flushed"}
    /\ data_file' = <<save_data(lb_order, lb_stats, lb_history)>>
    /\ save_pc' = "idle"
    /\ UNCHANGED <<ratingVars, managerVars, strategy, playerVars, queueVars, now, loopVars, runnerVars,
                   lb_history, lb_stats, last_post, last_upsert, lb_order, webVars, tournament>>

\* the process is killed while save_data writes, and a new process builds
\* its LeaderboardManager: __init__ calls load_data
CrashRestart ==
    /\ save_pc \in {"dump", "flushed"}
    /\ save_pc' = "idle"
    /\ LET m == load_data(data_file)
       IN  lb_order' = m.order /\ lb_stats' = m.stats /\ lb_history' = m.history
    /\ last_upsert' = <<>>
    /\ UNCHANGED <<ratingVars, managerVars, strategy, playerVars, queueVars, now, loopVars, runnerVars,
                   last_post, data_file, webVars, tournament>>

NextStore ==
    \/ ApplyRecorded \/ StoreUpdateFromMatchmaker \/ StoreApiUpdate
    \/ SaveFlush \/ SaveClose \/ CrashRestart

SpecStore == InitStore /\ [][NextStore]_vars

----------------------------------------------------------------------------
(* Specification SpecLoad: a LeaderboardManager is built on a data file that *)
(* an earlier run saved, as it was saved or with one entry that the record   *)
(* classes do not accept, and then takes the results of a new matchmaker     *)

\* a JSON object with a key that BotStats(username=username, **stats_copy)
\* and BattleResult(**battle_data) do not accept: the call raises TypeError
Unaccepted == [unexpected_key |-> TRUE]

\* the data files saved by an earlier run of two battles of b1 and b2
SavedFiles ==
    {save_data(<<"b1", "b2">>,
               update_battle_result(update_battle_result(
                   [b \in {"b1", "b2"} |-> NewBotStats(Rating(DEFAULT_ELO))], h[1]), h[2]),
               h) : h \in RecordedBattles}

\* a saved file in which one entry of bot_stats or of battle_history has
\* been replaced by an object that is not accepted
EditedFiles ==
    {[f EXCEPT !.bot_stats[i][2] = Unaccepted] : f \in SavedFiles, i \in 1..2}
      \cup {[f EXCEPT !.battle_history[i] = Unaccepted] : f \in SavedFiles, i \in 1..2}

\* the entries of a list of JSON objects, or of the key/value pairs of a JSON
\* object, before the first one that is not accepted
RECURSIVE AcceptedPrefix(_, _)
AcceptedPrefix(seq, pairs) ==
    IF seq = <<>> THEN <<>>
    ELSE IF (IF pairs THEN Head(seq)[2] ELSE Head(seq)) = Unaccepted THEN <<>>
    ELSE <<Head(seq)>> \o AcceptedPrefix(Tail(seq), pairs)

\* load_data of a fresh LeaderboardManager on any file: the two loops assign
\* entry by entry, and "except Exception" ends the load where a record class
\* raises, with the entries assigned so far in place
load_data_entries(file) ==
    IF file = <<>> \/ ~file[1].closed THEN load_data(file)
    ELSE LET stats == AcceptedPrefix(file[1].bot_stats, TRUE)
             history == IF Len(stats) < Len(file[1].bot_stats) THEN <<>>
                        ELSE AcceptedPrefix(file[1].battle_history, FALSE)
         IN  load_data(<<[file[1] EXCEPT !.bot_stats = stats, !.battle_history = history]>>)

\* load_data prints "Error loading leaderboard data"
load_fails(file) ==
    /\ file # <<>>
    /\ \/ ~file[1].closed
       \/ Len(AcceptedPrefix(file[1].bot_stats, TRUE)) < Len(file[1].bot_stats)
       \/ Len(AcceptedPrefix(file[1].battle_history, FALSE)) < Len(file[1].battle_history)

InitLoad ==
    /\ bot_stats = [b \in {"b1", "b2"} |-> NewBotStats(Rating(DEFAULT_ELO))]
    /\ last_update = <<>>
    /\ active_bots = {"b1", "b2"}
    /\ battle_results \in {<<BattleResult(3, "b1", "b2", w, "f1", 0)>> : w \in {"b1", "b2", None}}
    /\ next_battle = 3
    /\ strategy = "elo_based"
    /\ match_queue = <<>>
    /\ pairing_queue = <<>>
    /\ match_history = <<>>
    /\ next_request = 0
    /\ last_add = <<>>
    /\ cycle = <<>>
    /\ now = 0
    /\ lb_history = <<>> /\ lb_stats = <<>> /\ last_post = <<>> /\ last_upsert = <<>>
    /\ lb_order = <<>>
    /\ data_file \in {<<>>} \cup {<<f>> : f \in SavedFiles \cup EditedFiles}
    /\ save_pc = "init"
    /\ NoLoop /\ NoRunner /\ NoWeb /\ NoTournament /\ NoPlayers

\* LeaderboardManager.__init__: load_data
LoadData ==
    /\ save_pc = "init"
    /\ save_pc' = "idle"
    /\ LET m == load_data_entries(data_file)
       IN  lb_order' = m.order /\ lb_stats' = m.stats /\ lb_history' = m.history
    /\ UNCHANGED <<ratingVars, managerVars, strategy, playerVars, queueVars, now, loopVars, runnerVars,
                   last_post, last_upsert, data_file, webVars, tournament>>

NextLoad ==
    \/ LoadData \/ ApplyRecorded \/ StoreUpdateFromMatchmaker
    \/ SaveFlush \/ SaveClose \/ CrashRestart

SpecLoad == InitLoad /\ [][NextLoad]_vars

----------------------------------------------------------------------------
(* Specification SpecBoard: the leaderboard of three bots that play in two  *)
(* formats; the battles run one at a time and the runner's monitoring loop  *)
(* reports each result before the next battle ends                          *)

InitBoard ==
    /\ bot_stats = [b \in Bots |-> NewBotStats(Rating(DEFAULT_ELO))]
    /\ last_update = <<>>
    /\ active_bots = Bots
    /\ battle_results = <<>>
    /\ next_battle = 0
    /\ strategy = "elo_based"
    /\ match_queue = <<>>
    /\ pairing_queue = <<>>
    /\ match_history = <<>>
    /\ next_request = 0
    /\ last_add = <<>>
    /\ cycle = <<>>
    /\ now = 0
    /\ NoLoop /\ NoRunner /\ NoLeaderboard /\ NoWeb /\ NoTournament /\ NoPlayers

\* BotManager.start_bot_battle, from its call to its return, for a pair of
\* bots in the order of their configuration
BoardBattle ==
    \E p \in {<<"b1", "b2">>, <<"b1", "b3">>, <<"b2", "b3">>}, f \in Formats :
      \E w \in {p[1], p[2], None} :
        /\ next_battle < MaxBattles
        /\ Len(applied) = Len(battle_results)
        /\ next_battle' = next_battle + 1
        /\ battle_results' = Append(battle_results,
               BattleResult(next_battle + 1, p[1], p[2], w, f, now))
        /\ UNCHANGED <<ratingVars, active_bots, strategy, playerVars, queueVars, now,
                       loopVars, runnerVars, lbVars, webVars, tournament>>

\* the body of the monitoring loop for a newly completed battle:
\* matchmaker.update_battle_result and leaderboard.update_from_matchmaker
BoardReport ==
    /\ Len(applied) < Len(battle_results)
    /\ LET r == battle_results[Len(applied) + 1]
           after == update_battle_result(bot_stats, r)
       IN  /\ bot_stats' = after
           /\ last_update' = <<[result |-> r, before |-> bot_stats, after |-> after]>>
           /\ applied' = Append(applied, r.battle_id)
           /\ lb_history' = history_from_matchmaker(lb_history, battle_results)
           /\ lb_stats' = stats_from_matchmaker(lb_stats, after)
           /\ last_upsert' = <<[stored |-> lb_stats, incoming |-> after]>>
           /\ lb_order' = order_from_matchmaker(lb_order, KeyOrder(after))
           /\ data_file' = <<save_data(lb_order', lb_stats', lb_history')>>
    /\ UNCHANGED <<managerVars, strategy, playerVars, queueVars, now, loopVars,
                   run_pc, running, poll_idx, processed_battles, stopped_at,
                   last_post, save_pc, webVars, tournament>>

NextBoard == BoardBattle \/ BoardReport

SpecBoard == InitBoard /\ [][NextBoard]_vars

----------------------------------------------------------------------------
(* Specification SpecWinner: BotManager.start_bot_battle of                 *)
(* src/src/bot_vs_bot/bot_manager.py, one call at a time, with the battle   *)
(* counters that the battle collaborator keeps for every player, and the    *)
(* matchmaker that applies the recorded results                             *)

NoCounts == [n_won_battles |-> 0, n_lost_battles |-> 0, n_tied_battles |-> 0]

\* getattr(bot, '_initial_wins', bot.n_won_battles), and the like for losses
InitialOr(snapshot, current) == IF snapshot = <<>> THEN current ELSE snapshot[1]

\* getattr(bot, '_initial_ties', 0)
InitialTies(snapshot) == IF snapshot = <<>> THEN 0 ELSE snapshot[1].n_tied_battles

\* _determine_winner that looks at the win counters only
determine_winner_WinsOnly(bot1, bot2) ==
    LET bot1_wins_gained == counters[bot1].n_won_battles
                               - InitialOr(initial[bot1], counters[bot1]).n_won_battles
        bot2_wins_gained == counters[bot2].n_won_battles
                               - InitialOr(initial[bot2], counters[bot2]).n_won_battles
    IN  IF bot1_wins_gained > 0 THEN bot1
        ELSE IF bot2_wins_gained > 0 THEN bot2
        ELSE None

\* BotManager._determine_winner
determine_winner(bot1, bot2) ==
    LET bot1_wins_gained == counters[bot1].n_won_battles
                               - InitialOr(initial[bot1], counters[bot1]).n_won_battles
        bot1_losses_gained == counters[bot1].n_lost_battles
                               - InitialOr(initial[bot1], counters[bot1]).n_lost_battles
        bot2_wins_gained == counters[bot2].n_won_battles
                               - InitialOr(initial[bot2], counters[bot2]).n_won_battles
        bot2_losses_gained == counters[bot2].n_lost_battles
                               - InitialOr(initial[bot2], counters[bot2]).n_lost_battles
    IN  IF bot1_wins_gained > 0 /\ bot2_losses_gained > 0 THEN bot1
        ELSE IF bot2_wins_gained > 0 /\ bot1_losses_gained > 0 THEN bot2
        ELSE IF \/ counters[bot1].n_tied_battles > InitialTies(initial[bot1])
                \/ counters[bot2].n_tied_battles > InitialTies(initial[bot2])
        THEN None
        ELSE None

InitWinner ==
    /\ bot_stats = [b \in {"b1", "b2"} |-> StartStats[b]]
    /\ last_update = <<>>
    /\ active_bots = {"b1", "b2"}
    /\ battle_results = <<>>
    /\ next_battle = 0
    /\ strategy = "elo_based"
    /\ match_queue = <<>>
    /\ pairing_queue = <<>>
    /\ match_history = <<>>
    /\ next_request = 0
    /\ last_add = <<>>
    /\ cycle = <<>>
    /\ now = 0
    /\ NoLoop /\ NoRunner /\ NoLeaderboard /\ NoWeb /\ NoTournament
    /\ counters = [b \in active_bots |-> NoCounts]
    /\ initial = [b \in active_bots |-> <<>>]
    /\ unknown_battles = {}
    /\ decision = <<>>

\* start_bot_battle up to its first await: the counters of both players are
\* copied into their _initial_ attributes
BattleBegins ==
    \E b1 \in active_bots, b2 \in active_bots :
        /\ b1 # b2
        /\ in_battle = <<>>
        /\ next_battle < MaxBattles
        /\ next_battle' = next_battle + 1
        /\ initial' = [initial EXCEPT ![b1] = <<counters[b1]>>, ![b2] = <<counters[b2]>>]
        /\ in_battle' = <<[pairing |-> MatchPairing(b1, b2, "f1", 0, now),
                           battle_id |-> next_battle + 1]>>
        /\ UNCHANGED <<ratingVars, active_bots, battle_results, counters, unknown_battles, decision,
                       strategy, queueVars, now, mm_pc, battles_started, pending_tasks,
                       last_start, runnerVars, lbVars, webVars, tournament>>

\* the battle collaborator ends the one battle (n_battles = 1) of a player of
\* the match and counts it as won, lost or tied
CounterChanges ==
    /\ in_battle # <<>>
    /\ \E b \in {in_battle[1].pairing.bot1_username, in_battle[1].pairing.bot2_username} :
       \E field \in {"n_won_battles", "n_lost_battles", "n_tied_battles"} :
          /\ counters[b] = initial[b][1]
          /\ counters' = [counters EXCEPT ![b][field] = @ + 1]
    /\ UNCHANGED <<ratingVars, managerVars, initial, unknown_battles, decision, strategy, queueVars,
                   now, loopVars, runnerVars, lbVars, webVars, tournament>>

\* the battle tasks are done: _determine_winner, and the result is recorded
BattleReturns ==
    /\ in_battle # <<>>
    /\ LET bot1 == in_battle[1].pairing.bot1_username
           bot2 == in_battle[1].pairing.bot2_username
       IN  /\ battle_results' = Append(battle_results,
                  BattleResult(in_battle[1].battle_id, bot1, bot2,
                               determine_winner(bot1, bot2), "f1", now))
           /\ unknown_battles' = IF counters[bot1] = initial[bot1][1]
                                       /\ counters[bot2] = initial[bot2][1]
                                  THEN unknown_battles \cup {in_battle[1].battle_id}
                                  ELSE unknown_battles
    /\ in_battle' = <<>>
    /\ UNCHANGED <<ratingVars, active_bots, next_battle, counters, initial, decision, strategy,
                   queueVars, now, mm_pc, battles_started, pending_tasks, last_start,
                   runnerVars, lbVars, webVars, tournament>>

NextWinner == BattleBegins \/ CounterChanges \/ BattleReturns \/ ApplyRecorded

SpecWinner == InitWinner /\ [][NextWinner]_vars

----------------------------------------------------------------------------
(* Specification SpecOverlap: calls of BotManager.start_bot_battle that are  *)
(* in progress at the same time, up to MaxCalls of them, on the players of   *)
(* one manager. in_battle holds the calls in progress, each with the         *)
(* counters of its two players when it began (at_start) and the players      *)
(* whose battle of this call has ended (ended); the bots of a call are in    *)
(* the order of their configuration, and two more battle ids are handed out  *)

InitOverlap ==
    /\ bot_stats = StartStats
    /\ last_update = <<>>
    /\ active_bots = Bots
    /\ battle_results = <<>>
    /\ next_battle = MaxBattles - 2
    /\ strategy = "elo_based"
    /\ match_queue = <<>>
    /\ pairing_queue = <<>>
    /\ match_history = <<>>
    /\ next_request = 0
    /\ last_add = <<>>
    /\ cycle = <<>>
    /\ now = 0
    /\ NoLoop /\ NoRunner /\ NoLeaderboard /\ NoWeb /\ NoTournament
    /\ counters = [b \in active_bots |-> NoCounts]
    /\ initial = [b \in active_bots |-> <<>>]
    /\ unknown_battles = {}
    /\ decision = <<>>

\* start_bot_battle up to its first await, while other calls may be waiting
\* for their battles
CallBegins ==
    \E b1 \in active_bots, b2 \in active_bots :
        /\ <<b1, b2>> \in {<<"b1", "b2">>, <<"b1", "b3">>, <<"b2", "b3">>}
        /\ Len(in_battle) < MaxCalls
        /\ next_battle < MaxBattles
        /\ next_battle' = next_battle + 1
        /\ initial' = [initial EXCEPT ![b1] = <<counters[b1]>>, ![b2] = <<counters[b2]>>]
        /\ in_battle' = Append(in_battle,
               [pairing |-> MatchPairing(b1, b2, "f1", 0, now), battle_id |-> next_battle + 1,
                at_start |-> [b \in {b1, b2} |-> counters[b]], ended |-> {}])
        /\ UNCHANGED <<ratingVars, active_bots, battle_results, counters, unknown_battles, decision,
                       strategy, queueVars, now, mm_pc, battles_started, pending_tasks,
                       last_start, runnerVars, lbVars, webVars, tournament>>

\* the battle collaborator ends the battle of a player in one of the calls
\* and counts it as won, lost or tied
CallCounterChanges ==
    /\ \E i \in 1..Len(in_battle) :
       \E b \in DOMAIN in_battle[i].at_start \ in_battle[i].ended :
       \E field \in {"n_won_battles", "n_lost_battles", "n_tied_battles"} :
          /\ counters' = [counters EXCEPT ![b][field] = @ + 1]
          /\ in_battle' = [in_battle EXCEPT ![i].ended = @ \cup {b}]
    /\ UNCHANGED <<ratingVars, managerVars, initial, unknown_battles, decision, strategy, queueVars,
                   now, mm_pc, battles_started, pending_tasks, last_start,
                   runnerVars, lbVars, webVars, tournament>>

\* the battle tasks of one call are done: _determine_winner, and the result
\* is recorded
CallReturns ==
    /\ \E i \in 1..Len(in_battle) :
          LET bot1 == in_battle[i].pairing.bot1_username
              bot2 == in_battle[i].pairing.bot2_username
          IN  /\ in_battle[i].ended = {bot1, bot2}
              /\ battle_results' = Append(battle_results,
                     BattleResult(in_battle[i].battle_id, bot1, bot2,
                                  determine_winner(bot1, bot2), "f1", now))
              /\ in_battle' = RemoveAt(in_battle, i)
    /\ UNCHANGED <<ratingVars, active_bots, next_battle, counters, initial, unknown_battles, decision,
                   strategy, queueVars, now, mm_pc, battles_started, pending_tasks, last_start,
                   runnerVars, lbVars, webVars, tournament>>

NextOverlap == CallBegins \/ CallCounterChanges \/ CallReturns

SpecOverlap == InitOverlap /\ [][NextOverlap]_vars

----------------------------------------------------------------------------
(* Specification SpecMove: one call of LLMPlayer.choose_move of              *)
(* src/src/bot/bot.py, the player class that the bot manager imports, for a  *)
(* battle with up to two available moves and up to one available switch     *)

MAX_RETRIES == 2

\* the parsed answers: an action with the name of the move m1, of the move
\* m2 in capitals, of a move that does not exist, or of a pokemon
Answers == [action : {"move", "switch", "pass"}, value : {"m1", "M2", "m3", "p1"}]

\* str.lower()
Lower(x) == IF x = "M2" THEN "m2" ELSE x

\* create_order(move, ...) and create_order(pokemon): the order for a name
create_order(name) == <<"order", name>>

\* the first entry of names that equals value without regard to case: <<>>
\* or <<order>>
RECURSIVE first_match(_, _)
first_match(names, value) ==
    IF names = <<>> THEN <<>>
    ELSE IF Lower(Head(names)) = Lower(value) THEN <<create_order(Head(names))>>
    ELSE first_match(Tail(names), value)

\* LLMPlayer._execute_validated_action: <<>> for None
execute_validated_action(action, value, moves, switches) ==
    IF action = "move" THEN first_match(moves, value)
    ELSE IF action = "switch" THEN first_match(switches, value)
    ELSE <<>>

\* LLMPlayer._choose_safe_random_move: the orders random.choice can give
choose_safe_random_move(moves, switches) ==
    IF moves # <<>> THEN {create_order(moves[i]) : i \in 1..Len(moves)}
    ELSE IF switches # <<>> THEN {create_order(switches[i]) : i \in 1..Len(switches)}
    ELSE {create_order("struggle")}

InitMove ==
    /\ bot_stats = <<>>
    /\ last_update = <<>>
    /\ active_bots = {}
    /\ battle_results = <<>>
    /\ next_battle = 0
    /\ strategy = "elo_based"
    /\ match_queue = <<>>
    /\ pairing_queue = <<>>
    /\ match_history = <<>>
    /\ next_request = 0
    /\ last_add = <<>>
    /\ cycle = <<>>
    /\ now = 0
    /\ NoLoop /\ NoRunner /\ NoLeaderboard /\ NoWeb /\ NoTournament
    /\ counters = <<>> /\ initial = <<>> /\ unknown_battles = {}
    /\ \E moves \in {<<>>, <<"m1">>, <<"m1", "m2">>, <<"m2", "m1">>},
          switches \in {<<>>, <<"p1">>} :
          decision = <<[available_moves |-> moves, available_switches |-> switches,
                        attempt |-> 0, queries |-> 0, answers |-> <<>>, returned |-> <<>>]>>

\* the end of an iteration that did not return a validated result: the
\* branches "if attempt < max_retries: ... continue" and "else: ... return
\* self._choose_safe_random_move(battle)"
retry_or_fallback(d, queries, answers) ==
    IF d.attempt < MAX_RETRIES
    THEN {[d EXCEPT !.attempt = @ + 1, !.queries = queries, !.answers = answers]}
    ELSE {[d EXCEPT !.queries = queries, !.answers = answers,
                    !.returned = <<[value |-> <<o>>, fallback |-> TRUE]>>] :
             o \in choose_safe_random_move(d.available_moves, d.available_switches)}

\* one iteration of the for-loop in which the LLM answers and the answer is
\* parsed: "if result:" logs and falls through to the retry branches, and
\* the else branch returns result
AttemptAnswers ==
    /\ decision # <<>> /\ decision[1].returned = <<>>
    /\ \E a \in Answers :
          LET d == decision[1]
              result == execute_validated_action(a.action, a.value, d.available_moves,
                                                 d.available_switches)
          IN  IF result # <<>>
              THEN \E e \in retry_or_fallback(d, d.queries + 1, Append(d.answers, <<a>>)) :
                      decision' = <<e>>
              ELSE decision' = <<[d EXCEPT !.queries = @ + 1,
                                           !.answers = Append(@, <<a>>),
                                           !.returned = <<[value |-> result,
                                                           fallback |-> FALSE]>>]>>
    /\ UNCHANGED <<ratingVars, managerVars, strategy, counters, initial, unknown_battles,
                   queueVars, now, loopVars, runnerVars, lbVars, webVars, tournament>>

\* one iteration in which an exception is raised, before the LLM was asked
\* (_create_prompt) or after (the parser, the battle tracker)
AttemptRaises ==
    /\ decision # <<>> /\ decision[1].returned = <<>>
    /\ \E asked \in BOOLEAN :
       \E e \in retry_or_fallback(decision[1],
                                  decision[1].queries + (IF asked THEN 1 ELSE 0),
                                  Append(decision[1].answers, <<>>)) :
          decision' = <<e>>
    /\ UNCHANGED <<ratingVars, managerVars, strategy, counters, initial, unknown_battles,
                   queueVars, now, loopVars, runnerVars, lbVars, webVars, tournament>>

NextMove == AttemptAnswers \/ AttemptRaises

SpecMove == InitMove /\ [][NextMove]_vars

----------------------------------------------------------------------------
(* Specification SpecWeb: the web battle server with its own bot manager;   *)
(* every POST /api/start-battle starts a thread that runs _run_battle_async *)

InitWeb ==
    /\ bot_stats = <<>>
    /\ last_update = <<>>
    /\ active_bots = {}
    /\ battle_results = <<>>
    /\ next_battle = 0
    /\ strategy = "elo_based"
    /\ match_queue = <<>>
    /\ pairing_queue = <<>>
    /\ match_history = <<>>
    /\ next_request = 0
    /\ last_add = <<>>
    /\ cycle = <<>>
    /\ now = 0
    /\ NoLoop /\ NoRunner /\ NoLeaderboard /\ NoWeb /\ NoTournament /\ NoPlayers

\* api_start_battle without an external matchmaker: threading.Thread(...).start()
ApiStartBattle ==
    /\ Len(web_threads) < MaxThreads
    /\ web_threads' = Append(web_threads, [pc |-> "start", bot1 |-> None, bot2 |-> None,
                                           battle_id |-> None])
    /\ UNCHANGED <<ratingVars, managerVars, strategy, playerVars, queueVars, now,
                   loopVars, runnerVars, lbVars, tournament, battle_status, current_battle>>

\* f"battle_{int(time.time())}": the ids of the web server are written as
\* negative numbers, those of start_bot_battle (uuid4) as positive ones
web_battle_id(time) == 0 - (time + 1)

\* _run_single_battle up to "await battle_task": random.sample of two
\* configured bots, current_battle, create_bot for those not yet active,
\* bot1.battle_against(bot2) under way and the battle id
WebBattleStarts ==
    \E t \in 1..Len(web_threads) :
      \E bot1 \in Bots, bot2 \in Bots :
        /\ web_threads[t].pc = "start"
        /\ bot1 # bot2
        /\ battle_status' = "battling"
        /\ current_battle' = <<[bot1 |-> bot1, bot2 |-> bot2]>>
        /\ active_bots' = active_bots \cup {bot1, bot2}
        /\ web_threads' = [web_threads EXCEPT ![t] =
                              [pc |-> "battling", bot1 |-> bot1, bot2 |-> bot2,
                               battle_id |-> web_battle_id(now)]]
        /\ UNCHANGED <<ratingVars, battle_results, next_battle, strategy, playerVars, queueVars, now,
                       loopVars, runnerVars, lbVars, tournament>>

\* the battle is over and _run_single_battle runs to its end: the wait for
\* a result with its battle id, update_battle_result and
\* update_from_matchmaker for the first result of the bot manager that
\* carries the id, and the finally clause, which resets the status
WebBattleEnds ==
    \E t \in 1..Len(web_threads) :
        LET found == SelectSeq(battle_results,
                               LAMBDA r : r.battle_id = web_threads[t].battle_id)
            after == update_battle_result(bot_stats, found[1])
        IN
        /\ web_threads[t].pc = "battling"
        /\ save_pc = "idle"
        /\ web_threads' = [web_threads EXCEPT ![t].pc = "done"]
        /\ current_battle' = <<>>
        /\ battle_status' = "idle"
        /\ IF found # <<>>
           THEN /\ bot_stats' = after
                /\ last_update' = <<[result |-> found[1], before |-> bot_stats,
                                     after |-> after]>>
                /\ lb_history' = history_from_matchmaker(lb_history, battle_results)
                /\ lb_stats' = stats_from_matchmaker(lb_stats, after)
                /\ last_upsert' = <<[stored |-> lb_stats, incoming |-> after]>>
                /\ lb_order' = order_from_matchmaker(lb_order, KeyOrder(after))
                /\ data_file' = <<save_data(lb_order', lb_stats', lb_history')>>
                /\ UNCHANGED <<last_post, save_pc>>
           ELSE UNCHANGED <<ratingVars, lbVars>>
        /\ UNCHANGED <<managerVars, strategy, playerVars, queueVars, now,
                       loopVars, runnerVars, tournament>>

NextWeb == ApiStartBattle \/ WebBattleStarts \/ WebBattleEnds

SpecWeb == InitWeb /\ [][NextWeb]_vars

----------------------------------------------------------------------------
(* Specification SpecTournament: BotManager.run_tournament over two or three *)
(* bot configurations of distinct usernames, by a manager that may have run  *)
(* a battle before; every create_bot returns a player                        *)

\* the bot_configs of a call, by username
TournamentConfigs ==
    {c \in UNION {[1..n -> Bots] : n \in 0..Cardinality(Bots)} :
        \A x \in DOMAIN c : \A y \in DOMAIN c : x # y => c[x] # c[y]}

InitTournament ==
    /\ bot_stats = <<>>
    /\ last_update = <<>>
    /\ active_bots = {}
    /\ battle_results \in {<<>>, <<BattleResult(1, "b1", "b2", "b1", "f1", 0)>>}
    /\ next_battle = Len(battle_results)
    /\ strategy = "elo_based"
    /\ match_queue = <<>>
    /\ pairing_queue = <<>>
    /\ match_history = <<>>
    /\ next_request = 0
    /\ last_add = <<>>
    /\ cycle = <<>>
    /\ now = 0
    /\ NoLoop /\ NoRunner /\ NoLeaderboard /\ NoWeb /\ NoTournament /\ NoPlayers

\* the position of the nested loops after the pair (i, j) of n bots:
\* <<>> when the loops are over
next_pair(n, i, j) ==
    IF j < n THEN <<i, j + 1>>
    ELSE IF i + 1 < n THEN <<i + 1, i + 2>>
    ELSE <<>>

\* the first recorded result, whatever its battle id
result_by_id_First(results, battle_id) == results[1]

\* next(r for r in self.battle_results if r.battle_id == battle_id)
result_by_id(results, battle_id) ==
    LET k == CHOOSE x \in 1..Len(results) :
                 /\ results[x].battle_id = battle_id
                 /\ \A y \in 1..(x - 1) : results[y].battle_id # battle_id
    IN  results[k]

\* the tournament after the attempt at its position, with the result of a
\* completed match appended, and moved to the next position
tournament_after(t, battle_id, completed, tournament_results) ==
    LET nxt == next_pair(Len(t.bots), t.i, t.j)
        tried == Append(t.attempts,
                     [i |-> t.i, j |-> t.j, bot1 |-> t.bots[t.i], bot2 |-> t.bots[t.j],
                      battle_id |-> battle_id, completed |-> completed])
    IN  [t EXCEPT !.tournament_results = tournament_results,
                  !.attempts = tried,
                  !.i = IF nxt = <<>> THEN @ ELSE nxt[1],
                  !.j = IF nxt = <<>> THEN @ ELSE nxt[2],
                  !.pc = IF nxt = <<>> THEN "returned" ELSE "battle"]

\* run_tournament up to its first await of start_bot_battle: the ValueError
\* for fewer than two configurations, or create_bot for each configuration
RunTournament ==
    \E configs \in TournamentConfigs, f \in Formats :
        /\ tournament = <<>>
        /\ IF Len(configs) < 2 THEN
               /\ tournament' = <<[bots |-> <<>>, battle_format |-> f, i |-> 0, j |-> 0,
                                   tournament_results |-> <<>>, attempts |-> <<>>,
                                   pc |-> "raised"]>>
               /\ UNCHANGED active_bots
           ELSE
               /\ tournament' = <<[bots |-> configs, battle_format |-> f, i |-> 1, j |-> 2,
                                   tournament_results |-> <<>>, attempts |-> <<>>,
                                   pc |-> "battle"]>>
               /\ active_bots' = active_bots \cup {configs[x] : x \in DOMAIN configs}
        /\ UNCHANGED <<ratingVars, battle_results, next_battle, strategy, playerVars, queueVars,
                       now, loopVars, runnerVars, lbVars, webVars>>

\* start_bot_battle returns the battle id: its result is looked up among the
\* recorded results and appended to tournament_results
TournamentBattleCompletes ==
    /\ tournament # <<>>
    /\ tournament[1].pc = "battle"
    /\ LET t == tournament[1]
           battle_id == next_battle + 1
       IN  \E w \in {t.bots[t.i], t.bots[t.j], None} :
             /\ battle_results' = Append(battle_results,
                    BattleResult(battle_id, t.bots[t.i], t.bots[t.j], w, t.battle_format, now))
             /\ next_battle' = battle_id
             /\ tournament' = <<tournament_after(t, battle_id, TRUE,
                    Append(t.tournament_results, result_by_id(battle_results', battle_id)))>>
    /\ UNCHANGED <<ratingVars, active_bots, strategy, playerVars, queueVars, now,
                   loopVars, runnerVars, lbVars, webVars>>

\* start_bot_battle raises: the error is logged and the loops go on
TournamentBattleFails ==
    /\ tournament # <<>>
    /\ tournament[1].pc = "battle"
    /\ next_battle' = next_battle + 1
    /\ tournament' = <<tournament_after(tournament[1], next_battle + 1, FALSE,
                                        tournament[1].tournament_results)>>
    /\ UNCHANGED <<ratingVars, active_bots, battle_results, strategy, playerVars, queueVars,
                   now, loopVars, runnerVars, lbVars, webVars>>

NextTournament == RunTournament \/ TournamentBattleCompletes \/ TournamentBattleFails

SpecTournament == InitTournament /\ [][NextTournament]_vars

----------------------------------------------------------------------------
(* Claims on the rating model (SpecElo) *)

\* C1: when update_battle_result applies a decisive result, the rating gained
\* by the winner equals the rating lost by the loser.
C1_DecisiveZeroSum ==
    \A i \in 1..Len(last_update) :
        LET u == last_update[i]
            w == u.result.winner
            l == IF w = u.result.bot1_username THEN u.result.bot2_username
                 ELSE u.result.bot1_username
        IN  w # None =>
              u.after[w].elo_rating - u.before[w].elo_rating
                = u.before[l].elo_rating - u.after[l].elo_rating

\* C3: for every participant created by register_bot, total_battles =
\* wins + losses + draws, the four counters are non-negative, and
\* win_rate = wins / total_battles whenever total_battles > 0.
C3_CountersConsistent ==
    \A u \in DOMAIN bot_stats :
        LET s == bot_stats[u] IN
        /\ s.total_battles = s.wins + s.losses + s.draws
        /\ s.wins >= 0 /\ s.losses >= 0 /\ s.draws >= 0 /\ s.total_battles >= 0
        /\ s.total_battles > 0 =>
              /\ s.win_rate[2] > 0
              /\ s.win_rate[1] * s.total_battles = s.wins * s.win_rate[2]

\* a participant that has won, lost and drawn
C3_Witness ==
    \E u \in DOMAIN bot_stats :
        bot_stats[u].wins > 0 /\ bot_stats[u].losses > 0 /\ bot_stats[u].draws > 0

\* C20: when update_battle_result applies a result whose winner is None, each
\* of the two participants has total_battles and draws one higher than before
\* and wins and losses as before.
C20_DrawCountsForBoth ==
    \A i \in 1..Len(last_update) :
        LET u == last_update[i] IN
        u.result.winner = None =>
            \A b \in {u.result.bot1_username, u.result.bot2_username} :
                /\ u.after[b].total_battles = u.before[b].total_battles + 1
                /\ u.after[b].draws = u.before[b].draws + 1
                /\ u.after[b].wins = u.before[b].wins
                /\ u.after[b].losses = u.before[b].losses

\* a result without winner was applied to two participants of whom one had
\* won and the other had lost before
C20_Witness ==
    \E i \in 1..Len(last_update) :
        LET u == last_update[i] IN
        /\ u.result.winner = None
        /\ u.before[u.result.bot1_username].wins > 0
        /\ u.before[u.result.bot2_username].losses > 0
        /\ u.after[u.result.bot1_username].draws > 0

\* C21: when update_battle_result applies a decisive result between two
\* participants both rated 1200, the winner ends at 1216 and the loser at 1184
\* (rating + K * (score - expected) with K = 32 and expected = 1/2).
C21_EvenDecisiveMatch ==
    \A i \in 1..Len(last_update) :
        LET u == last_update[i]
            w == u.result.winner
            l == IF w = u.result.bot1_username THEN u.result.bot2_username
                 ELSE u.result.bot1_username
        IN  (w # None /\ u.before[w].elo_rating = Rating(DEFAULT_ELO)
                      /\ u.before[l].elo_rating = Rating(DEFAULT_ELO)) =>
              /\ u.after[w].elo_rating = Rating(DEFAULT_ELO) + Rating(K_FACTOR) \div 2
              /\ u.after[l].elo_rating = Rating(DEFAULT_ELO) - Rating(K_FACTOR) \div 2

AbsDiff(x, y) == IF x >= y THEN x - y ELSE y - x

\* C22: when update_battle_result applies a draw, the absolute difference of
\* the two participants' ratings after it is at most the difference before it;
\* this holds for the first draw of a pair and for every later one.
C22_DrawNeverWidens ==
    \A i \in 1..Len(last_update) :
        LET u == last_update[i]
            b1 == u.result.bot1_username
            b2 == u.result.bot2_username
        IN  u.result.winner = None =>
              AbsDiff(u.after[b1].elo_rating, u.after[b2].elo_rating)
                <= AbsDiff(u.before[b1].elo_rating, u.before[b2].elo_rating)

\* a draw between two participants of different ratings who had drawn
\* before, and the ratings came strictly closer
C22_Witness ==
    \E i \in 1..Len(last_update) :
        LET u == last_update[i]
            b1 == u.result.bot1_username
            b2 == u.result.bot2_username
        IN  /\ u.result.winner = None
            /\ u.before[b1].draws > 0 /\ u.before[b2].draws > 0
            /\ u.before[b1].draws = u.before[b1].total_battles
            /\ u.before[b2].draws = u.before[b2].total_battles
            /\ AbsDiff(u.after[b1].elo_rating, u.after[b2].elo_rating)
                 < AbsDiff(u.before[b1].elo_rating, u.before[b2].elo_rating)

----------------------------------------------------------------------------
(* Claims on the pairing engine (SpecMM) *)

InSeq(x, seq) == \E i \in 1..Len(seq) : seq[i] = x
SeqSet(seq) == {seq[i] : i \in 1..Len(seq)}
MadeFrom(c, q) == \E k \in 1..Len(c.made) : c.made[k].request1 = q \/ c.made[k].request2 = q
Excludes(q, o) ==
    o.bot_username \in q.excluded_opponents \/ q.bot_username \in o.excluded_opponents
\* the requests of other bots that q meets in its format group
Candidates(c, q) ==
    {o \in SeqSet(Evict(c.queue, c.time)) :
        o.battle_format = q.battle_format /\ o.bot_username # q.bot_username}

\* C4: no pairing joins two requests one of which excludes the other's bot,
\* and a request all of whose candidates are excluded is not paired and is
\* still in the match queue after the cycle.
C4_ExclusionRespected ==
    \A i \in 1..Len(cycle) :
        LET c == cycle[i] IN
        /\ \A k \in 1..Len(c.made) : ~Excludes(c.made[k].request1, c.made[k].request2)
        /\ \A q \in SeqSet(Evict(c.queue, c.time)) :
              (Candidates(c, q) # {} /\ \A o \in Candidates(c, q) : Excludes(q, o))
                 => ~MadeFrom(c, q) /\ InSeq(q, c.after)

\* C5: every pairing has bot1_username # bot2_username, also when a
\* participant has more than one request in the match queue.
C5_NoSelfPairing ==
    /\ \A i \in 1..Len(cycle) : \A k \in 1..Len(cycle[i].made) :
          cycle[i].made[k].pairing.bot1_username # cycle[i].made[k].pairing.bot2_username
    /\ \A k \in 1..Len(pairing_queue) :
          pairing_queue[k].bot1_username # pairing_queue[k].bot2_username

\* a cycle that made a pairing while the group held a second request of one
\* of the paired bots
C5_Witness ==
    \E i \in 1..Len(cycle) : \E k \in 1..Len(cycle[i].made) :
        \E q \in SeqSet(Evict(cycle[i].queue, cycle[i].time)) :
            /\ q # cycle[i].made[k].request1
            /\ q.bot_username = cycle[i].made[k].request1.bot_username
            /\ q.battle_format = cycle[i].made[k].request1.battle_format

\* C6: no pairing made by _process_match_queue at time t contains a request
\* with t - created_time >= max_wait_time.
C6_NoExpiredPaired ==
    \A i \in 1..Len(cycle) : \A k \in 1..Len(cycle[i].made) :
        /\ cycle[i].time - cycle[i].made[k].request1.created_time
              < cycle[i].made[k].request1.max_wait_time
        /\ cycle[i].time - cycle[i].made[k].request2.created_time
              < cycle[i].made[k].request2.max_wait_time

\* a cycle that made a pairing and found an expired request in the queue
C6_Witness ==
    \E i \in 1..Len(cycle) :
        /\ cycle[i].made # <<>>
        /\ \E q \in SeqSet(cycle[i].queue) :
              cycle[i].time - q.created_time >= q.max_wait_time

EloDiff(c, q, o) ==
    Abs(c.stats[q.bot_username].elo_rating - c.stats[o.bot_username].elo_rating)

\* C7: every pairing of the ELO strategy joins two participants whose
\* ratings differ by at most elo_threshold, and a request without a pairable
\* candidate within the threshold is not paired and is still in the match
\* queue after the cycle.
C7_EloThreshold ==
    strategy = "elo_based" =>
      \A i \in 1..Len(cycle) :
        LET c == cycle[i] IN
        /\ \A k \in 1..Len(c.made) :
              EloDiff(c, c.made[k].request1, c.made[k].request2) <= Rating(ELO_THRESHOLD)
        /\ \A q \in SeqSet(Evict(c.queue, c.time)) :
              (\A o \in Candidates(c, q) :
                   \/ EloDiff(c, q, o) > Rating(ELO_THRESHOLD)
                   \/ Excludes(q, o)
                   \/ q.bot_username \notin c.active
                   \/ o.bot_username \notin c.active)
                 => ~MadeFrom(c, q) /\ InSeq(q, c.after)

C16_NoDuplicateRequests ==
    \A i \in 1..Len(match_queue) : \A j \in 1..Len(match_queue) :
        (/\ match_queue[i].bot_username = match_queue[j].bot_username
         /\ match_queue[i].battle_format = match_queue[j].battle_format) => i = j

\* no two requests of queue have the same bot and the same format
OnePerBotAndFormat(queue) ==
    \A i \in 1..Len(queue) : \A j \in 1..Len(queue) :
        (/\ queue[i].bot_username = queue[j].bot_username
         /\ queue[i].battle_format = queue[j].battle_format) => i = j

\* C17: a run of _process_match_queue keeps every request that has not
\* expired and was not placed in a pairing by that run (stated for the runs
\* on a queue with at most one request per participant and format).
C17_OnlyPairedOrExpiredLeave ==
    \A i \in 1..Len(cycle) :
        OnePerBotAndFormat(cycle[i].queue) =>
            \A q \in SeqSet(Evict(cycle[i].queue, cycle[i].time)) :
                ~MadeFrom(cycle[i], q) => InSeq(q, cycle[i].after)

\* C27: under every strategy, both bots of every pairing that a run of
\* _process_match_queue creates are in the bot manager's active_bots during
\* that run.
C27_PairedBotsActive ==
    \A i \in 1..Len(cycle) : \A k \in 1..Len(cycle[i].made) :
        /\ cycle[i].made[k].pairing.bot1_username \in cycle[i].active
        /\ cycle[i].made[k].pairing.bot2_username \in cycle[i].active

\* a run that made a pairing while a request of a bot that is not active was
\* waiting in the same format
C27_Witness ==
    \E i \in 1..Len(cycle) :
        /\ cycle[i].made # <<>>
        /\ \E q \in SeqSet(Evict(cycle[i].queue, cycle[i].time)) :
              /\ q.bot_username \notin cycle[i].active
              /\ q.battle_format = cycle[i].made[1].pairing.battle_format
              /\ q.excluded_opponents = {}

----------------------------------------------------------------------------
(* Claims on the matchmaking loop and the continuous runner (SpecRun) *)

\* start_next_battle returns None for a pairing it took from the pairing queue
FailedStart ==
    /\ last_start' # last_start
    /\ last_start' # <<>>
    /\ last_start'[1].returned = <<>>

C10_AppliedOnceInOrder ==
    /\ Len(applied) <= Len(battle_results)
    /\ \A i \in 1..Len(applied) : applied[i] = battle_results[i].battle_id
    /\ run_pc = "done" => Len(applied) = Len(battle_results)

\* C11: when the continuous runner has returned, every recorded result of a
\* match that was started before running was cleared has been passed to
\* update_battle_result, and so has every battle of the leaderboard's
\* battle_history.
C11_StartedMatchesApplied ==
    run_pc = "done" =>
        /\ \A k \in 1..Len(battle_results) :
              battle_results[k].battle_id <= stopped_at[1]
                  => battle_results[k].battle_id \in SeqSet(applied)
        /\ \A i \in 1..Len(lb_history) : lb_history[i].battle_id \in SeqSet(applied)

\* C24: once running is cleared, by the signal handler or by the duration
\* check, no step of the continuous runner adds a match request (the runner
\* then waits for the matchmaking task, cancels it and returns).
C24_NoRequestsAfterStop ==
    [][~running => next_request' = next_request]_vars

----------------------------------------------------------------------------
(* Claims on the order in which pairings are started (SpecLoop) *)

\* the rating difference of the two bots of a pairing
PairingDiff(p) ==
    AbsDiff(bot_stats[p.bot1_username].elo_rating, bot_stats[p.bot2_username].elo_rating)

\* start_next_battle has taken a pairing and started its battle
BattleStarted == next_battle' # next_battle /\ in_battle' # <<>>

\* C23: the pairing that start_next_battle takes has the highest priority of
\* the pairings in the pairing queue; a pairing of the ELO strategy has the
\* priority 1000 minus the rating difference of its bots; and under the ELO
\* strategy no pairing left in the queue has closer ratings than the pairing
\* started.
C23_ClosestStartedFirst ==
    /\ [][BattleStarted =>
            \A i \in 1..Len(pairing_queue') :
                /\ pairing_queue'[i].priority <= in_battle'[1].pairing.priority
                /\ strategy = "elo_based" =>
                      PairingDiff(in_battle'[1].pairing) <= PairingDiff(pairing_queue'[i])]_vars
    /\ [](strategy = "elo_based" =>
            \A i \in 1..Len(cycle) : \A k \in 1..Len(cycle[i].made) :
                Rating(cycle[i].made[k].pairing.priority)
                  = Rating(PRIORITY_BASE)
                      - EloDiff(cycle[i], cycle[i].made[k].request1, cycle[i].made[k].request2))

\* C25: once the stop signal is set (running is cleared and the event set), the
\* matchmaking loop starts no battle, neither the first of a cycle nor a later
\* one of the same cycle (checked under SpecRun).
C25_NoStartAfterStop ==
    [][~running => ~BattleStarted]_vars

\* the pairings pending in the pairing queue and the pairing of the battle
\* in progress
PendingOrRunning ==
    pairing_queue \o [i \in 1..Len(in_battle) |-> in_battle[i].pairing]

\* C34: no bot is in two pairings that are pending in the pairing queue or in
\* progress.
C34_OnePairingPerBot ==
    \A i \in 1..Len(PendingOrRunning) : \A j \in 1..Len(PendingOrRunning) :
        i # j =>
            {PendingOrRunning[i].bot1_username, PendingOrRunning[i].bot2_username}
                \cap {PendingOrRunning[j].bot1_username, PendingOrRunning[j].bot2_username} = {}

\* C33: a battle that does not end is abandoned after the maximum match
\* duration: the first battle of a cycle, which starts when the cycle runs, is
\* not awaited for longer than battle_timeout.
C33_BattleAbandoned ==
    (mm_pc = "battle" /\ battles_started = 0) => now - cycle[1].time <= BATTLE_TIMEOUT

\* C36: a step leaves every rating record in place, and changes one only as
\* update_battle_result does for a result of that participant: register_bot
\* for a registered username, explicit or from add_match_request, changes
\* none, and no record is deleted or reset.
C36_RecordsKept ==
    [][\A u \in DOMAIN bot_stats :
          /\ u \in DOMAIN bot_stats'
          /\ \/ bot_stats'[u] = bot_stats[u]
             \/ /\ last_update' # <<>>
                /\ last_update'[1].before = bot_stats
                /\ u \in {last_update'[1].result.bot1_username,
                           last_update'[1].result.bot2_username}
                /\ bot_stats' = update_battle_result(bot_stats, last_update'[1].result)
                /\ bot_stats'[u].total_battles = bot_stats[u].total_battles + 1]_vars

\* add_match_request has been called for a participant whose record holds a
\* battle and a rating that is not the initial one, and no result has been
\* applied since
C36_Witness ==
    /\ last_add # <<>> /\ last_add[1].returned
    /\ next_battle = MaxBattles - 1
    /\ bot_stats[last_add[1].bot].total_battles = 1
    /\ bot_stats[last_add[1].bot].elo_rating # Rating(DEFAULT_ELO)
    /\ "b3" \in DOMAIN bot_stats

\* the pairings pushed by the last run of _process_match_queue
PushedLast == {cycle[1].made[i].pairing : i \in 1..Len(cycle[1].made)}

\* C35: a pairing on the pairing queue is taken whatever pairings arrive
\* after it: when the loop goes back to sleep after a cycle whose last start
\* took a pairing pushed in that cycle, no pairing pushed before the cycle is
\* still waiting (pairings that arrive later do not keep it on the queue).
C35_TakenWhateverArrives ==
    (mm_pc = "sleep" /\ cycle # <<>> /\ last_start # <<>>
        /\ last_start[1].pairing \in PushedLast)
    => \A i \in 1..Len(pairing_queue) : pairing_queue[i] \in PushedLast

----------------------------------------------------------------------------
(* Claims on the leaderboard store (SpecLB, SpecStore) *)

\* C2: battle_history never holds two entries with the same battle_id, and a
\* POST /api/update with the batch of the POST before it leaves
\* battle_history as it was and reports new_battles = 0.
C2_IdempotentRecording ==
    /\ [](\A i \in 1..Len(lb_history) : \A j \in 1..Len(lb_history) :
             lb_history[i].battle_id = lb_history[j].battle_id => i = j)
    /\ [][(last_post # <<>> /\ last_post' # last_post
              /\ last_post'[1].batch = last_post[1].batch)
            => (lb_history' = lb_history /\ last_post'[1].new_battles = 0)]_vars

\* the ids that the last upsert was given and that the store already held
Upserted == DOMAIN last_upsert[1].stored \cap DOMAIN last_upsert[1].incoming

C37_FailedLoadKeepsStore ==
    (save_pc = "idle" /\ last_upsert = <<>> /\ load_fails(data_file)) =>
        lb_stats = <<>> /\ lb_history = <<>> /\ lb_order = <<>>

\* C14: the data file, once it exists, always holds a complete snapshot.
C14_FileNeverPartial ==
    data_file # <<>> => data_file[1].closed

----------------------------------------------------------------------------
(* Claims on the leaderboard queries (SpecBoard) *)

\* the entries are in non-increasing order of the sort key
NonIncreasing(entries, sort_by) ==
    \A i \in 1..(Len(entries) - 1) :
        SortKey(entries[i], sort_by) >= SortKey(entries[i + 1], sort_by)

\* the limits asked for: none to more than there are bots, and the default
Limits == 0..MaxLimit \cup {50}

\* C26: for each of the four sort keys, every limit and every format filter,
\* get_leaderboard returns at most limit entries, each with the counts of its
\* bot, in non-increasing order of the key and with the ranks 1, 2, ... in
\* that order; the matchmaker's get_leaderboard lists every bot in
\* non-increasing order of its key.
C26_LeaderboardRanked ==
    /\ \A sort_by \in SortKeys, limit \in Limits, battle_format \in Formats \cup {"all"} :
          LET board == get_leaderboard(lb_order, lb_stats, lb_history,
                                       sort_by, limit, battle_format)
          IN  /\ Len(board) <= limit
              /\ NonIncreasing(board, sort_by)
              /\ \A i \in 1..Len(board) :
                    /\ board[i].rank = i
                    /\ board[i].elo_rating = lb_stats[board[i].username].elo_rating
                    /\ board[i].wins = lb_stats[board[i].username].wins
                    /\ board[i].total_battles = lb_stats[board[i].username].total_battles
              /\ \A i, j \in 1..Len(board) : board[i].username = board[j].username => i = j
    /\ \A sort_by \in MatchmakerSortKeys :
          LET board == matchmaker_get_leaderboard(KeyOrder(bot_stats), bot_stats, sort_by)
          IN  /\ Len(board) = Cardinality(DOMAIN bot_stats)
              /\ NonIncreasing(board, IF sort_by = "total_battles" THEN "battles" ELSE sort_by)

\* three bots are on the leaderboard in an order of ratings that is not the
\* order of their registration, two of them with different wins, and a limit
\* of 2 cuts the third off
C26_Witness ==
    LET board == get_leaderboard(lb_order, lb_stats, lb_history, "elo", 2, "all")
        all == get_leaderboard(lb_order, lb_stats, lb_history, "wins", 50, "all")
    IN  /\ Len(lb_order) = 3
        /\ Len(board) = 2
        /\ board[1].username # lb_order[1]
        /\ board[1].elo_rating > board[2].elo_rating
        /\ Len(all) = 3
        /\ all[1].wins > all[3].wins
        /\ all[1].username # lb_order[1]

\* the number of consecutive wins of username that end at the last of battles
TrailingWins(battles, username) ==
    Cardinality({k \in 1..Len(battles) :
        \A i \in (Len(battles) - k + 1)..Len(battles) : battles[i].winner = username})

\* the length of the longest run of consecutive wins of username in battles
LongestRun(battles, username) ==
    CHOOSE k \in 0..Len(battles) :
        /\ \E start \in 1..(Len(battles) - k + 1) :
              \A i \in start..(start + k - 1) : battles[i].winner = username
        /\ \A m \in (k + 1)..Len(battles) :
              ~\E start \in 1..(Len(battles) - m + 1) :
                  \A i \in start..(start + m - 1) : battles[i].winner = username

\* C30: in every leaderboard entry, for every format filter, current_streak
\* is the number of consecutive wins that end at the bot's most recent battle
\* in the filter's scope (0 when that battle was not won) and
\* longest_win_streak is the length of its longest run of wins in that scope.
C30_Streaks ==
    \A battle_format \in Formats \cup {"all"} :
        LET board == get_leaderboard(lb_order, lb_stats, lb_history, "elo", 50, battle_format)
        IN  \A i \in 1..Len(board) :
                LET scope == user_battles(board[i].username, lb_history, battle_format)
                IN  /\ board[i].current_streak = TrailingWins(scope, board[i].username)
                    /\ board[i].longest_win_streak = LongestRun(scope, board[i].username)

----------------------------------------------------------------------------
(* Claims on the winner of a battle (SpecWinner) *)

\* how much counter field of bot has grown since the start of the last battle
Gained(bot, field) == counters[bot][field] - initial[bot][1][field]

\* C18: when start_bot_battle has returned, the winner it recorded is bot1
\* exactly when bot1's win counter and bot2's loss counter both grew during
\* the battle, otherwise bot2 exactly when bot2's win counter and bot1's loss
\* counter both grew, otherwise None; the winner of every recorded result is
\* None or one of its two participants.
C18_WinnerFromCounters ==
    /\ (in_battle = <<>> /\ battle_results # <<>>) =>
          LET r == battle_results[Len(battle_results)]
              one == Gained(r.bot1_username, "n_won_battles") > 0
                        /\ Gained(r.bot2_username, "n_lost_battles") > 0
              two == Gained(r.bot2_username, "n_won_battles") > 0
                        /\ Gained(r.bot1_username, "n_lost_battles") > 0
          IN  r.winner = IF one THEN r.bot1_username
                         ELSE IF two THEN r.bot2_username ELSE None
    /\ \A k \in 1..Len(battle_results) :
          battle_results[k].winner
              \in {None, battle_results[k].bot1_username, battle_results[k].bot2_username}

\* a battle has returned with bot2 as its winner, and another one without a
\* winner
C18_Witness ==
    /\ in_battle = <<>>
    /\ Len(battle_results) >= 2
    /\ battle_results[Len(battle_results)].winner
           = battle_results[Len(battle_results)].bot2_username
    /\ \E k \in 1..Len(battle_results) : battle_results[k].winner = None

\* the attempts of the decision whose parsed action passes the validation
ValidAttempts(d) ==
    {k \in 1..Len(d.answers) :
        /\ d.answers[k] # <<>>
        /\ execute_validated_action(d.answers[k][1].action, d.answers[k][1].value,
                                    d.available_moves, d.available_switches) # <<>>}

\* C39: when choose_move has returned, the LLM was asked at most three
\* times; if an attempt gave a valid action, the value returned is the order
\* of the first such attempt; otherwise there were three attempts and the
\* value returned is the safe fallback move.
C39_FirstValidOrFallback ==
    (decision # <<>> /\ decision[1].returned # <<>>) =>
        LET d == decision[1]
            valid == ValidAttempts(d)
        IN  /\ d.queries <= MAX_RETRIES + 1
            /\ IF valid # {}
               THEN LET k == CHOOSE i \in valid : \A j \in valid : i <= j
                    IN  /\ ~d.returned[1].fallback
                        /\ d.returned[1].value
                               = execute_validated_action(d.answers[k][1].action,
                                     d.answers[k][1].value, d.available_moves,
                                     d.available_switches)
               ELSE /\ Len(d.answers) = MAX_RETRIES + 1
                    /\ d.returned[1].fallback

\* the winner that the counters give for a call that began with the counters
\* start: the changes of the two players' counters since then
WinnerSince(start, bot1, bot2) ==
    IF counters[bot1].n_won_battles > start[bot1].n_won_battles
           /\ counters[bot2].n_lost_battles > start[bot2].n_lost_battles THEN bot1
    ELSE IF counters[bot2].n_won_battles > start[bot2].n_won_battles
           /\ counters[bot1].n_lost_battles > start[bot1].n_lost_battles THEN bot2
    ELSE None

\* C38: the winner recorded when a call of start_bot_battle returns is the
\* one given by the changes of the counters since that call began, also when
\* another call with one of its bots has begun in between.
C38_WinnerFromOwnStart ==
    [][\A i \in 1..Len(in_battle) :
          (/\ Len(battle_results') = Len(battle_results) + 1
           /\ battle_results'[Len(battle_results')].battle_id = in_battle[i].battle_id)
          => battle_results'[Len(battle_results')].winner
                 = WinnerSince(in_battle[i].at_start, in_battle[i].pairing.bot1_username,
                               in_battle[i].pairing.bot2_username)]_vars

\* C19: a battle at whose end no counter of its two players had changed
\* leaves every rating as it was when its result is applied, and its
\* recorded result does not have the winner None of a draw.
C19_UnknownOutcomeNeutral ==
    /\ \A i \in 1..Len(last_update) :
          last_update[i].result.battle_id \in unknown_battles =>
              \A b \in DOMAIN bot_stats :
                  last_update[i].after[b].elo_rating = last_update[i].before[b].elo_rating
    /\ \A k \in 1..Len(battle_results) :
          battle_results[k].battle_id \in unknown_battles => battle_results[k].winner # None

----------------------------------------------------------------------------
(* Claims on the matches in flight (SpecWeb) *)

\* the matches in flight: the battle start_next_battle awaits and the battles
\* of the web server's threads
InFlight ==
    [i \in 1..Len(in_battle) |->
        {in_battle[i].pairing.bot1_username, in_battle[i].pairing.bot2_username}]
    \o [i \in 1..Len(SelectSeq(web_threads, LAMBDA th : th.pc = "battling")) |->
        {SelectSeq(web_threads, LAMBDA th : th.pc = "battling")[i].bot1,
         SelectSeq(web_threads, LAMBDA th : th.pc = "battling")[i].bot2}]

\* C8: no participant takes part in two matches in flight, whether started
\* by the matchmaking loop or by the threads of the web server.
C8_OneMatchPerParticipant ==
    \A i \in 1..Len(InFlight) : \A j \in 1..Len(InFlight) :
        i # j => InFlight[i] \cap InFlight[j] = {}

\* C40: a battle of the web server's own start-battle path that has run to
\* completion has had its result applied to the ratings and appended to the
\* leaderboard: the two bots have a battle more on record, and the history
\* of the leaderboard holds a result with its battle id.
C40_WebResultApplied ==
    \A t \in 1..Len(web_threads) :
        web_threads[t].pc = "done" =>
            /\ \E k \in 1..Len(lb_history) :
                  lb_history[k].battle_id = web_threads[t].battle_id
            /\ \A b \in {web_threads[t].bot1, web_threads[t].bot2} :
                  b \in DOMAIN bot_stats /\ bot_stats[b].total_battles >= 1

----------------------------------------------------------------------------
(* Claims on the ELO strategy (SpecEloPair) *)

\* the requests x and y of the group G, by position: x comes before y in
\* rating order, the earlier of the queue first among equal ratings
RateBefore(c, G, x, y) ==
    \/ c.stats[G[x].bot_username].elo_rating < c.stats[G[y].bot_username].elo_rating
    \/ /\ c.stats[G[x].bot_username].elo_rating = c.stats[G[y].bot_username].elo_rating
       /\ x < y

Pairable(c, q, o) ==
    /\ q.bot_username # o.bot_username
    /\ ~Excludes(q, o)
    /\ q.bot_username \in c.active /\ o.bot_username \in c.active

\* the unmatched requests U that x can be paired with within the threshold
Partners(c, G, U, x) ==
    {y \in U \ {x} : EloDiff(c, G[x], G[y]) <= Rating(ELO_THRESHOLD) /\ Pairable(c, G[x], G[y])}

\* the pairs of requests the strategy is to make of the unmatched requests U
RECURSIVE ExpectedEloPairs(_, _, _)
ExpectedEloPairs(c, G, U) ==
    IF Cardinality(U) < 2 THEN <<>>
    ELSE
        LET x == CHOOSE l \in U : \A m \in U \ {l} : RateBefore(c, G, l, m)
            P == Partners(c, G, U, x)
        IN  IF P = {} THEN ExpectedEloPairs(c, G, U \ {x})
            ELSE
                LET y == CHOOSE k \in P : \A z \in P \ {k} :
                             \/ EloDiff(c, G[x], G[k]) < EloDiff(c, G[x], G[z])
                             \/ /\ EloDiff(c, G[x], G[k]) = EloDiff(c, G[x], G[z])
                                /\ RateBefore(c, G, k, z)
                IN  <<<<G[x], G[y]>>>> \o ExpectedEloPairs(c, G, U \ {x, y})

\* the pairs of requests a cycle made for a format, in the order it made them
MadePairs(c, f) ==
    LET made == SelectSeq(c.made, LAMBDA m : m.pairing.battle_format = f)
    IN  [k \in 1..Len(made) |-> <<made[k].request1, made[k].request2>>]

\* the cycle ran on three requests of one format by three bots rated 1000,
\* 1190 and 1400, none excluding another
ThreeRatings(c) ==
    /\ Len(c.queue) = 3
    /\ \A k \in 1..3 :
          /\ c.queue[k].battle_format = c.queue[1].battle_format
          /\ c.queue[k].excluded_opponents = {}
          /\ c.time - c.queue[k].created_time < c.queue[k].max_wait_time
    /\ {c.stats[c.queue[k].bot_username].elo_rating : k \in 1..3} = PairRatings
    /\ Cardinality({c.queue[k].bot_username : k \in 1..3}) = 3

\* C29: the ELO strategy takes the unmatched request of lowest rating, pairs
\* it with the unmatched pairable request of least rating difference within
\* the threshold (the earliest in rating order on ties) and repeats on the
\* rest; of requests rated 1000, 1190 and 1400 it makes the one pairing
\* (1000, 1190) and leaves the request rated 1400 in the queue.
C29_EloStrategy ==
    strategy = "elo_based" =>
      \A i \in 1..Len(cycle) :
        LET c == cycle[i] IN
        /\ \A f \in Formats :
              LET G == GroupOf(Evict(c.queue, c.time), f)
              IN  MadePairs(c, f) = ExpectedEloPairs(c, G, 1..Len(G))
        /\ ThreeRatings(c) =>
              /\ Len(c.made) = 1
              /\ c.stats[c.made[1].pairing.bot1_username].elo_rating = Rating(1000)
              /\ c.stats[c.made[1].pairing.bot2_username].elo_rating = Rating(1190)
              /\ Len(c.after) = 1
              /\ c.stats[c.after[1].bot_username].elo_rating = Rating(1400)
              /\ InSeq(c.after[1], c.queue)

\* a cycle has run on requests rated 1400, 1190 and 1000, submitted in that
\* order
C29_Witness ==
    /\ cycle # <<>>
    /\ ThreeRatings(cycle[1])
    /\ cycle[1].stats[cycle[1].queue[1].bot_username].elo_rating = Rating(1400)
    /\ cycle[1].stats[cycle[1].queue[3].bot_username].elo_rating = Rating(1000)
    /\ cycle[1].made # <<>>

----------------------------------------------------------------------------
(* Claims on one cycle of the pairing engine (SpecOdd, SpecSwiss) *)

\* the requests of the group G are of distinct active bots, any two of which
\* the strategy may pair
Eligible(c, G) ==
    \A x \in 1..Len(G) : \A y \in 1..Len(G) :
        x # y =>
            /\ Pairable(c, G[x], G[y])
            /\ strategy = "elo_based" => EloDiff(c, G[x], G[y]) <= Rating(ELO_THRESHOLD)
            /\ strategy = "swiss_system" =>
                   ~have_played_recently(G[x].bot_username, G[y].bot_username)

\* C31: of an odd number (three or more) of unexpired eligible requests for
\* one format, a cycle pairs all but exactly one, and that one is in the match
\* queue after the cycle.
C31_OddLeavesOne ==
    \A i \in 1..Len(cycle) :
        LET c == cycle[i] IN
        \A f \in Formats :
            LET G == GroupOf(Evict(c.queue, c.time), f)
                left == {x \in 1..Len(G) : ~MadeFrom(c, G[x])}
            IN  (Len(G) >= 3 /\ Len(G) % 2 = 1 /\ Eligible(c, G)) =>
                    /\ Cardinality(left) = 1
                    /\ \A x \in left : InSeq(G[x], c.after)

\* the bots a and b appear together among the last five entries of
\* match_history
MetInLastFive(a, b) ==
    \E i \in 1..Len(match_history) :
        /\ Len(match_history) - i < 5
        /\ match_history[i] \in {<<a, b>>, <<b, a>>}

\* the requests x and y of the group G, by position: x comes before y in
\* descending order of (win_rate, total_battles), the earlier of the queue
\* first among equals
RecordBefore(c, G, x, y) ==
    LET sx == c.stats[G[x].bot_username]
        sy == c.stats[G[y].bot_username]
        wx == sx.win_rate[1] * sy.win_rate[2]
        wy == sy.win_rate[1] * sx.win_rate[2]
    IN  \/ wx > wy
        \/ wx = wy /\ sx.total_battles > sy.total_battles
        \/ wx = wy /\ sx.total_battles = sy.total_battles /\ x < y

\* the pairs of requests the Swiss strategy is to make of the unmatched
\* requests U
RECURSIVE ExpectedSwissPairs(_, _, _)
ExpectedSwissPairs(c, G, U) ==
    IF Cardinality(U) < 2 THEN <<>>
    ELSE
        LET x == CHOOSE l \in U : \A m \in U \ {l} : RecordBefore(c, G, l, m)
            P == {y \in U \ {x} : /\ Pairable(c, G[x], G[y])
                                  /\ ~MetInLastFive(G[x].bot_username, G[y].bot_username)}
        IN  IF P = {} THEN ExpectedSwissPairs(c, G, U \ {x})
            ELSE
                LET y == CHOOSE k \in P : \A z \in P \ {k} : RecordBefore(c, G, k, z)
                IN  <<<<G[x], G[y]>>>> \o ExpectedSwissPairs(c, G, U \ {x, y})

\* C32: the Swiss strategy takes the requests in descending order of
\* (win_rate, total_battles) and pairs each with the first later request that
\* it can be paired with and has not met in the last five recorded pairings;
\* no Swiss pairing joins two bots that appear together, in either order,
\* among the last five entries of match_history.
C32_SwissStrategy ==
    strategy = "swiss_system" =>
      \A i \in 1..Len(cycle) :
        LET c == cycle[i] IN
        /\ \A f \in Formats :
              LET G == GroupOf(Evict(c.queue, c.time), f)
              IN  MadePairs(c, f) = ExpectedSwissPairs(c, G, 1..Len(G))
        /\ \A k \in 1..Len(c.made) :
              ~MetInLastFive(c.made[k].pairing.bot1_username, c.made[k].pairing.bot2_username)

\* a Swiss cycle has paired two bots that had met six pairings before, and
\* has passed over a request with a better record that had met the first in
\* the last five
C32_Witness ==
    /\ cycle # <<>>
    /\ Len(match_history) = 6
    /\ Len(cycle[1].made) = 1
    /\ Len(cycle[1].queue) = 3
    /\ match_history[1] \in
           {<<cycle[1].made[1].pairing.bot1_username, cycle[1].made[1].pairing.bot2_username>>,
            <<cycle[1].made[1].pairing.bot2_username, cycle[1].made[1].pairing.bot1_username>>}
    /\ \E q \in SeqSet(cycle[1].queue) :
          /\ ~MadeFrom(cycle[1], q)
          /\ MetInLastFive(q.bot_username, cycle[1].made[1].pairing.bot1_username)
          /\ bot_stats[q.bot_username].win_rate[1] * bot_stats[cycle[1].made[1].pairing.bot2_username].win_rate[2]
               > bot_stats[cycle[1].made[1].pairing.bot2_username].win_rate[1] * bot_stats[q.bot_username].win_rate[2]

----------------------------------------------------------------------------
(* Claims on tournaments (SpecTournament) *)

\* the attempts of the tournament that completed
CompletedAttempts == SelectSeq(tournament[1].attempts, LAMBDA a : a.completed)

=============================================================================
